---- MODULE Spec2Model ----
(***************************************************************************)
(* Row-level-security model of the Clarity Label database.                 *)
(*                                                                         *)
(* The state is the set of active policies (built by applying the SQL      *)
(* migrations in order) and the rows of the six public tables.  Every data *)
(* operation is decided by the policies that are active, evaluated the way *)
(* PostgreSQL evaluates permissive policies: OR over the policies that     *)
(* apply to the command and the role, default deny, sub-selects inside a   *)
(* policy expression filtered by the caller's own SELECT policies, and     *)
(* has_role() reading profiles directly (SECURITY DEFINER).                *)
(***************************************************************************)
EXTENDS Integers, FiniteSets, Sequences, Bags, TLC

(* ---- bounds ---- *)
NumUsers == 2
NumProjects == 2
NumLabels == 2
NumImages == 2
NumAnnotations == 1
NumMembers == 2
NumNames == 2

(* auth.uid() of a caller without a session, and the NULL of a column *)
NULL == 0

Users == 1..NumUsers
Principals == Users \cup {NULL}
ProjectIds == 1..NumProjects
LabelIds == 1..NumLabels
ImageIds == 1..NumImages
AnnotationIds == 1..NumAnnotations
MemberIds == 1..NumMembers
Names == 1..NumNames

(* the empty string, the name of a new label form *)
Blank == 0

(* CREATE TYPE public.user_role *)
user_role == {"admin", "annotator", "reviewer"}

(* is_approved BOOLEAN DEFAULT NULL: "null" = pending *)
Approval == {"null", "true", "false"}

Actions == {"SELECT", "INSERT", "UPDATE", "DELETE"}
Tables == {"profiles", "projects", "project_members", "labels", "images", "annotations"}

NoRow == [none |-> TRUE]

(* ---- rows of the tables (the columns the policies and constraints read) ---- *)
ProfileRows == [id : Users, role : user_role]
ProjectRows == [id : ProjectIds, created_by : Users]
MemberRows == [id : MemberIds, project_id : ProjectIds, user_id : Users]
LabelRows == [id : LabelIds, project_id : ProjectIds, name : Names \cup {Blank}]
ImageRows == [id : ImageIds, project_id : ProjectIds]
AnnotationRows == [id : AnnotationIds, image_id : ImageIds, label_id : LabelIds,
                   created_by : Users, is_approved : Approval]

RowsOf(t) ==
  CASE t = "profiles" -> ProfileRows
    [] t = "projects" -> ProjectRows
    [] t = "project_members" -> MemberRows
    [] t = "labels" -> LabelRows
    [] t = "images" -> ImageRows
    [] t = "annotations" -> AnnotationRows

VARIABLES policies, migrated, profiles, projects, project_members, labels, images,
          annotations, issued, last, client, upload

vars == <<policies, migrated, profiles, projects, project_members, labels, images,
          annotations, issued, last, client, upload>>

(* the stored rows as one value, so that a policy can be evaluated on any stored state;
   issued is the highest id gen_random_uuid() has given out in each table so far *)
db == [profiles |-> profiles, projects |-> projects, project_members |-> project_members,
       labels |-> labels, images |-> images, annotations |-> annotations,
       issued |-> issued]

(* ---- policy catalogue: table, command and role of every CREATE POLICY ---- *)
PolicyTable(p) ==
  CASE p \in {"Users can view own profile", "Users can update own profile"} -> "profiles"
    [] p \in {"Admins can view all projects", "Members can view assigned projects",
              "Admins can create projects", "Admins can update projects",
              "Users can create projects", "Creators and admins can update projects",
              "Authenticated users can create projects",
              "Users can manage their own projects"} -> "projects"
    [] p \in {"Admins can manage project members", "Users can view their project memberships",
              "Project creator can add themselves as member"} -> "project_members"
    [] p \in {"Project members can view labels", "Admins can manage labels",
              "Users can manage labels in their projects"} -> "labels"
    [] p \in {"Project members can view images", "Admins can manage images",
              "Users can manage images in their projects"} -> "images"
    [] p \in {"Project members can view annotations", "Annotators can create annotations",
              "Users can update own annotations",
              "Users can manage annotations in their projects"} -> "annotations"

PolicyCmd(p) ==
  CASE p \in {"Users can view own profile", "Admins can view all projects",
              "Members can view assigned projects", "Users can view their project memberships",
              "Project members can view labels", "Project members can view images",
              "Project members can view annotations"} -> "SELECT"
    [] p \in {"Admins can create projects", "Users can create projects",
              "Authenticated users can create projects",
              "Project creator can add themselves as member",
              "Annotators can create annotations"} -> "INSERT"
    [] p \in {"Users can update own profile", "Admins can update projects",
              "Creators and admins can update projects",
              "Users can update own annotations"} -> "UPDATE"
    [] p \in {"Admins can manage project members", "Admins can manage labels",
              "Admins can manage images", "Users can manage their own projects",
              "Users can manage images in their projects",
              "Users can manage labels in their projects",
              "Users can manage annotations in their projects"} -> "ALL"

(* TO authenticated; a policy without TO applies to every role *)
PolicyTo(p) ==
  IF p \in {"Authenticated users can create projects", "Users can manage their own projects",
            "Users can manage images in their projects",
            "Users can manage labels in their projects",
            "Users can manage annotations in their projects"}
  THEN "authenticated" ELSE "public"

(* every policy any migration creates *)
AllPolicies ==
  {"Users can view own profile", "Users can update own profile",
   "Admins can view all projects", "Members can view assigned projects",
   "Admins can create projects", "Admins can update projects",
   "Users can create projects", "Creators and admins can update projects",
   "Authenticated users can create projects", "Users can manage their own projects",
   "Admins can manage project members", "Users can view their project memberships",
   "Project creator can add themselves as member",
   "Project members can view labels", "Admins can manage labels",
   "Users can manage labels in their projects",
   "Project members can view images", "Admins can manage images",
   "Users can manage images in their projects",
   "Project members can view annotations", "Annotators can create annotations",
   "Users can update own annotations", "Users can manage annotations in their projects"}

(* does policy p of the catalogue apply to command cmd on table t for a caller that
   is (or is not) authenticated *)
Applies(p, t, cmd, authenticated) ==
  /\ PolicyTable(p) = t
  /\ PolicyCmd(p) \in {cmd, "ALL"}
  /\ (PolicyTo(p) = "authenticated" => authenticated)

(* the catalogue as a table: the policies that apply, by table, command and role *)
Catalogue ==
  [t \in Tables |-> [cmd \in Actions |-> [authenticated \in BOOLEAN |->
     {p \in AllPolicies : Applies(p, t, cmd, authenticated)}]]]

(* public.has_role(_user_id, _role) *)
has_role(d, _user_id, _role) ==
  \E pr \in d.profiles : pr.id = _user_id /\ pr.role = _role

(* ---- profiles ---- *)
UsersCanViewOwnProfile(d, q, r) == q = r.id

UsersCanUpdateOwnProfile(d, q, r) == q = r.id

ProfilesUsing(p, d, pol, q, r) ==
  CASE p = "Users can view own profile" -> UsersCanViewOwnProfile(d, q, r)
    [] p = "Users can update own profile" -> UsersCanUpdateOwnProfile(d, q, r)
    [] OTHER -> FALSE

ProfilesCheck(p, d, pol, q, r) == ProfilesUsing(p, d, pol, q, r)

(* ---- project_members: USING ---- *)
AdminsCanManageProjectMembers(d, q, r) == has_role(d, q, "admin")

UsersCanViewTheirProjectMemberships(d, q, r) == r.user_id = q

MembersUsing(p, d, pol, q, r) ==
  CASE p = "Admins can manage project members" -> AdminsCanManageProjectMembers(d, q, r)
    [] p = "Users can view their project memberships" ->
         UsersCanViewTheirProjectMemberships(d, q, r)
    [] OTHER -> FALSE

(* the project_members rows a sub-select issued by q returns *)
VisibleMembers(d, pol, q) ==
  {r \in d.project_members :
     \E p \in Catalogue["project_members"]["SELECT"][q # NULL] :
        p \in pol /\ MembersUsing(p, d, pol, q, r)}

IsMember(d, pol, q, project_id) ==
  \E m \in VisibleMembers(d, pol, q) : m.project_id = project_id /\ m.user_id = q

(* ---- projects ---- *)
AdminsCanViewAllProjects(d, q, r) == has_role(d, q, "admin")

MembersCanViewAssignedProjects(d, pol, q, r) == IsMember(d, pol, q, r.id)

AdminsCanCreateProjects(d, q, r) == has_role(d, q, "admin")

AdminsCanUpdateProjects(d, q, r) == has_role(d, q, "admin")

UsersCanCreateProjects(d, q, r) == r.created_by = q

CreatorsAndAdminsCanUpdateProjects(d, q, r) ==
  r.created_by = q \/ has_role(d, q, "admin")

AuthenticatedUsersCanCreateProjects(d, q, r) == r.created_by = q

(* variant: admins kept their access to every project *)
UsersCanManageTheirOwnProjectsUsing_OrAdmin(d, q, r) ==
  r.created_by = q \/ has_role(d, q, "admin")

UsersCanManageTheirOwnProjectsUsing(d, q, r) == r.created_by = q

(* variant: any authenticated caller may write any project row *)
UsersCanManageTheirOwnProjectsCheck_AnyAuthenticated(d, q, r) == q # NULL

UsersCanManageTheirOwnProjectsCheck(d, q, r) == r.created_by = q

ProjectsUsing(p, d, pol, q, r) ==
  CASE p = "Admins can view all projects" -> AdminsCanViewAllProjects(d, q, r)
    [] p = "Members can view assigned projects" -> MembersCanViewAssignedProjects(d, pol, q, r)
    [] p = "Admins can update projects" -> AdminsCanUpdateProjects(d, q, r)
    [] p = "Creators and admins can update projects" ->
         CreatorsAndAdminsCanUpdateProjects(d, q, r)
    [] p = "Users can manage their own projects" -> UsersCanManageTheirOwnProjectsUsing(d, q, r)
    [] OTHER -> FALSE

ProjectsCheck(p, d, pol, q, r) ==
  CASE p = "Admins can create projects" -> AdminsCanCreateProjects(d, q, r)
    [] p = "Users can create projects" -> UsersCanCreateProjects(d, q, r)
    [] p = "Authenticated users can create projects" ->
         AuthenticatedUsersCanCreateProjects(d, q, r)
    [] p = "Users can manage their own projects" -> UsersCanManageTheirOwnProjectsCheck(d, q, r)
    [] OTHER -> ProjectsUsing(p, d, pol, q, r)

(* the projects rows a sub-select issued by q returns *)
VisibleProjects(d, pol, q) ==
  {r \in d.projects :
     \E p \in Catalogue["projects"]["SELECT"][q # NULL] :
        p \in pol /\ ProjectsUsing(p, d, pol, q, r)}

(* variant: no project with this id counts as owned *)
OwnsProject_UnlessOtherOwner(d, pol, q, project_id) ==
  \A pj \in d.projects : pj.id = project_id => pj.created_by = q

(* EXISTS (SELECT 1 FROM projects WHERE projects.id = <project_id>
           AND projects.created_by = auth.uid()) *)
OwnsProject(d, pol, q, project_id) ==
  \E pj \in VisibleProjects(d, pol, q) : pj.id = project_id /\ pj.created_by = q

(* ---- project_members: WITH CHECK ---- *)
(* variant: the row need not name the caller *)
ProjectCreatorCanAddThemselvesAsMember_AnyUser(d, pol, q, r) ==
  r.project_id \in {pj.id : pj \in {x \in VisibleProjects(d, pol, q) : x.created_by = q}}

(* variant: the project is looked up through the caller's memberships *)
ProjectCreatorCanAddThemselvesAsMember_ViaMembership(d, pol, q, r) ==
  IsMember(d, pol, q, r.project_id) /\ r.user_id = q

ProjectCreatorCanAddThemselvesAsMember(d, pol, q, r) ==
  /\ r.project_id \in {pj.id : pj \in {x \in VisibleProjects(d, pol, q) : x.created_by = q}}
  /\ r.user_id = q

MembersCheck(p, d, pol, q, r) ==
  CASE p = "Project creator can add themselves as member" ->
         ProjectCreatorCanAddThemselvesAsMember(d, pol, q, r)
    [] OTHER -> MembersUsing(p, d, pol, q, r)

(* ---- labels ---- *)
ProjectMembersCanViewLabels(d, pol, q, r) ==
  IsMember(d, pol, q, r.project_id) \/ has_role(d, q, "admin")

AdminsCanManageLabels(d, q, r) == has_role(d, q, "admin")

UsersCanManageLabelsInTheirProjectsUsing(d, pol, q, r) == OwnsProject(d, pol, q, r.project_id)

UsersCanManageLabelsInTheirProjectsCheck(d, pol, q, r) == OwnsProject(d, pol, q, r.project_id)

LabelsUsing(p, d, pol, q, r) ==
  CASE p = "Project members can view labels" -> ProjectMembersCanViewLabels(d, pol, q, r)
    [] p = "Admins can manage labels" -> AdminsCanManageLabels(d, q, r)
    [] p = "Users can manage labels in their projects" ->
         UsersCanManageLabelsInTheirProjectsUsing(d, pol, q, r)
    [] OTHER -> FALSE

LabelsCheck(p, d, pol, q, r) ==
  CASE p = "Users can manage labels in their projects" ->
         UsersCanManageLabelsInTheirProjectsCheck(d, pol, q, r)
    [] OTHER -> LabelsUsing(p, d, pol, q, r)

(* ---- images ---- *)
ProjectMembersCanViewImages(d, pol, q, r) ==
  IsMember(d, pol, q, r.project_id) \/ has_role(d, q, "admin")

AdminsCanManageImages(d, q, r) == has_role(d, q, "admin")

(* variant: any stored image may be addressed *)
UsersCanManageImagesInTheirProjectsUsing_True(d, pol, q, r) == TRUE

UsersCanManageImagesInTheirProjectsUsing(d, pol, q, r) == OwnsProject(d, pol, q, r.project_id)

UsersCanManageImagesInTheirProjectsCheck(d, pol, q, r) == OwnsProject(d, pol, q, r.project_id)

ImagesUsing(p, d, pol, q, r) ==
  CASE p = "Project members can view images" -> ProjectMembersCanViewImages(d, pol, q, r)
    [] p = "Admins can manage images" -> AdminsCanManageImages(d, q, r)
    [] p = "Users can manage images in their projects" ->
         UsersCanManageImagesInTheirProjectsUsing(d, pol, q, r)
    [] OTHER -> FALSE

ImagesCheck(p, d, pol, q, r) ==
  CASE p = "Users can manage images in their projects" ->
         UsersCanManageImagesInTheirProjectsCheck(d, pol, q, r)
    [] OTHER -> ImagesUsing(p, d, pol, q, r)

(* the images rows a sub-select issued by q returns *)
VisibleImages(d, pol, q) ==
  {r \in d.images :
     \E p \in Catalogue["images"]["SELECT"][q # NULL] :
        p \in pol /\ ImagesUsing(p, d, pol, q, r)}

(* ---- annotations ---- *)
(* EXISTS (SELECT 1 FROM project_members pm JOIN images i ON i.project_id = pm.project_id
           WHERE i.id = annotations.image_id AND pm.user_id = auth.uid()) *)
IsMemberOfImageProject(d, pol, q, image_id) ==
  \E pm \in VisibleMembers(d, pol, q) : \E i \in VisibleImages(d, pol, q) :
     i.project_id = pm.project_id /\ i.id = image_id /\ pm.user_id = q

(* EXISTS (SELECT 1 FROM images JOIN projects ON projects.id = images.project_id
           WHERE images.id = annotations.image_id AND projects.created_by = auth.uid()) *)
(* variant: the image only has to exist *)
OwnsImageProject_AnyImage(d, pol, q, image_id) ==
  \E i \in d.images : i.id = image_id

OwnsImageProject(d, pol, q, image_id) ==
  \E i \in VisibleImages(d, pol, q) : \E pj \in VisibleProjects(d, pol, q) :
     pj.id = i.project_id /\ i.id = image_id /\ pj.created_by = q

ProjectMembersCanViewAnnotations(d, pol, q, r) ==
  IsMemberOfImageProject(d, pol, q, r.image_id) \/ has_role(d, q, "admin")

AnnotatorsCanCreateAnnotations(d, pol, q, r) ==
  IsMemberOfImageProject(d, pol, q, r.image_id) /\ r.created_by = q

UsersCanUpdateOwnAnnotations(d, q, r) ==
  r.created_by = q \/ has_role(d, q, "reviewer") \/ has_role(d, q, "admin")

UsersCanManageAnnotationsInTheirProjectsUsing(d, pol, q, r) ==
  OwnsImageProject(d, pol, q, r.image_id)

(* variant: the membership-based check of the initial schema *)
UsersCanManageAnnotationsInTheirProjectsCheck_ViaMembership(d, pol, q, r) ==
  IsMemberOfImageProject(d, pol, q, r.image_id) /\ r.created_by = q

(* variant: created_by is not compared with the caller *)
UsersCanManageAnnotationsInTheirProjectsCheck_AnyCreator(d, pol, q, r) ==
  OwnsImageProject(d, pol, q, r.image_id)

UsersCanManageAnnotationsInTheirProjectsCheck(d, pol, q, r) ==
  OwnsImageProject(d, pol, q, r.image_id) /\ r.created_by = q

AnnotationsUsing(p, d, pol, q, r) ==
  CASE p = "Project members can view annotations" ->
         ProjectMembersCanViewAnnotations(d, pol, q, r)
    [] p = "Users can update own annotations" -> UsersCanUpdateOwnAnnotations(d, q, r)
    [] p = "Users can manage annotations in their projects" ->
         UsersCanManageAnnotationsInTheirProjectsUsing(d, pol, q, r)
    [] OTHER -> FALSE

AnnotationsCheck(p, d, pol, q, r) ==
  CASE p = "Annotators can create annotations" -> AnnotatorsCanCreateAnnotations(d, pol, q, r)
    [] p = "Users can manage annotations in their projects" ->
         UsersCanManageAnnotationsInTheirProjectsCheck(d, pol, q, r)
    [] OTHER -> AnnotationsUsing(p, d, pol, q, r)

(* ---- the policy evaluator ---- *)
(* USING expression of policy p of table t on stored row r *)
Using(t, p, d, pol, q, r) ==
  CASE t = "profiles" -> ProfilesUsing(p, d, pol, q, r)
    [] t = "projects" -> ProjectsUsing(p, d, pol, q, r)
    [] t = "project_members" -> MembersUsing(p, d, pol, q, r)
    [] t = "labels" -> LabelsUsing(p, d, pol, q, r)
    [] t = "images" -> ImagesUsing(p, d, pol, q, r)
    [] t = "annotations" -> AnnotationsUsing(p, d, pol, q, r)

(* WITH CHECK expression of policy p on proposed row r (USING when none is given) *)
Check(t, p, d, pol, q, r) ==
  CASE t = "profiles" -> ProfilesCheck(p, d, pol, q, r)
    [] t = "projects" -> ProjectsCheck(p, d, pol, q, r)
    [] t = "project_members" -> MembersCheck(p, d, pol, q, r)
    [] t = "labels" -> LabelsCheck(p, d, pol, q, r)
    [] t = "images" -> ImagesCheck(p, d, pol, q, r)
    [] t = "annotations" -> AnnotationsCheck(p, d, pol, q, r)

UsingOk(t, cmd, d, pol, q, r) ==
  \E p \in Catalogue[t][cmd][q # NULL] : p \in pol /\ Using(t, p, d, pol, q, r)

CheckOk(t, cmd, d, pol, q, r) ==
  \E p \in Catalogue[t][cmd][q # NULL] : p \in pol /\ Check(t, p, d, pol, q, r)

(* authorize(principal, action, entityKind, entityId?, payload?): old is the stored row
   (NoRow for INSERT), new the proposed row (NoRow for SELECT and DELETE).  An UPDATE or
   DELETE addresses its row through a WHERE clause, so the row must also pass SELECT,
   and so must the row an UPDATE leaves. *)
(* variant: an UPDATE is judged by the stored row alone *)
Permits_OldRowOnly(d, pol, q, action, t, old, new) ==
  CASE action = "SELECT" -> UsingOk(t, "SELECT", d, pol, q, old)
    [] action = "INSERT" -> CheckOk(t, "INSERT", d, pol, q, new)
    [] action = "UPDATE" -> /\ UsingOk(t, "SELECT", d, pol, q, old)
                            /\ UsingOk(t, "UPDATE", d, pol, q, old)
    [] action = "DELETE" -> /\ UsingOk(t, "SELECT", d, pol, q, old)
                            /\ UsingOk(t, "DELETE", d, pol, q, old)

Permits(d, pol, q, action, t, old, new) ==
  CASE action = "SELECT" -> UsingOk(t, "SELECT", d, pol, q, old)
    [] action = "INSERT" -> CheckOk(t, "INSERT", d, pol, q, new)
    [] action = "UPDATE" -> /\ UsingOk(t, "SELECT", d, pol, q, old)
                            /\ UsingOk(t, "UPDATE", d, pol, q, old)
                            /\ CheckOk(t, "UPDATE", d, pol, q, new)
                            /\ UsingOk(t, "SELECT", d, pol, q, new)
    [] action = "DELETE" -> /\ UsingOk(t, "SELECT", d, pol, q, old)
                            /\ UsingOk(t, "DELETE", d, pol, q, old)

authorize(d, pol, q, action, t, old, new) ==
  IF Permits(d, pol, q, action, t, old, new) THEN "ALLOW" ELSE "DENY"

(* ---- migrations, in the order their DROP POLICY statements presuppose ---- *)
InitialSchemaCreates ==
  {"Users can view own profile", "Users can update own profile",
   "Admins can view all projects", "Members can view assigned projects",
   "Admins can create projects", "Admins can update projects",
   "Admins can manage project members", "Users can view their project memberships",
   "Project members can view labels", "Admins can manage labels",
   "Project members can view images", "Admins can manage images",
   "Project members can view annotations", "Annotators can create annotations",
   "Users can update own annotations"}

UsersCreateProjectsDrops == {"Admins can create projects", "Admins can update projects"}

UsersCreateProjectsCreates ==
  {"Users can create projects", "Creators and admins can update projects"}

SelfEnrollCreates == {"Project creator can add themselves as member"}

WispyButterflyDrops == {"Users can create projects"}

WispyButterflyCreates == {"Authenticated users can create projects"}

(* variants: one of the superseded policies is not dropped *)
WildHazeDrops_KeepsAdminLabels ==
  {"Authenticated users can create projects", "Members can view assigned projects",
   "Creators and admins can update projects", "Admins can view all projects",
   "Project members can view images", "Admins can manage images",
   "Project members can view labels",
   "Project members can view annotations", "Annotators can create annotations",
   "Users can update own annotations"}

WildHazeDrops_KeepsAdminImages ==
  {"Authenticated users can create projects", "Members can view assigned projects",
   "Creators and admins can update projects", "Admins can view all projects",
   "Project members can view images",
   "Project members can view labels", "Admins can manage labels",
   "Project members can view annotations", "Annotators can create annotations",
   "Users can update own annotations"}

WildHazeDrops_KeepsMemberView ==
  {"Authenticated users can create projects",
   "Creators and admins can update projects", "Admins can view all projects",
   "Project members can view images", "Admins can manage images",
   "Project members can view labels", "Admins can manage labels",
   "Project members can view annotations", "Annotators can create annotations",
   "Users can update own annotations"}

WildHazeDrops ==
  {"Authenticated users can create projects", "Members can view assigned projects",
   "Creators and admins can update projects", "Admins can view all projects",
   "Project members can view images", "Admins can manage images",
   "Project members can view labels", "Admins can manage labels",
   "Project members can view annotations", "Annotators can create annotations",
   "Users can update own annotations"}

WildHazeCreates ==
  {"Users can manage their own projects", "Users can manage images in their projects",
   "Users can manage labels in their projects",
   "Users can manage annotations in their projects"}

Migrations ==
  << [drops |-> {}, creates |-> InitialSchemaCreates],
     [drops |-> {}, creates |-> {}],
     [drops |-> UsersCreateProjectsDrops, creates |-> UsersCreateProjectsCreates],
     [drops |-> {}, creates |-> SelfEnrollCreates],
     [drops |-> WispyButterflyDrops, creates |-> WispyButterflyCreates],
     [drops |-> WildHazeDrops, creates |-> WildHazeCreates] >>

(* the policies in force after one migration file has run on pol *)
PoliciesAfter(pol, m) == (pol \ m.drops) \cup m.creates

RECURSIVE PoliciesAt(_)
(* the policies in force after the first n migrations *)
PoliciesAt(n) == IF n = 0 THEN {} ELSE PoliciesAfter(PoliciesAt(n - 1), Migrations[n])

(* the final rule set *)
FinalPolicies == PoliciesAt(Len(Migrations))

(* the final rule set is active *)
Migrated == migrated = Len(Migrations)

(* ---- the row store: keys, constraints, cascades ---- *)
IdsOf(t) ==
  CASE t = "profiles" -> Users
    [] t = "projects" -> ProjectIds
    [] t = "project_members" -> MemberIds
    [] t = "labels" -> LabelIds
    [] t = "images" -> ImageIds
    [] t = "annotations" -> AnnotationIds

UsedIds(d, t) == {r.id : r \in d[t]}

(* the tables whose key is id uuid PRIMARY KEY DEFAULT gen_random_uuid(); the key of a
   profile is the id of its auth user *)
Generated == {"projects", "project_members", "labels", "images", "annotations"}

(* the highest id given out in each table when the stored rows are these and no row
   has been deleted: rows carry the ids 1, 2, ... in the order they were inserted *)
IssuedFor(pj, ms, ls, is, as) ==
  [projects |-> Cardinality(pj), project_members |-> Cardinality(ms),
   labels |-> Cardinality(ls), images |-> Cardinality(is), annotations |-> Cardinality(as)]

(* auth.users: one profile per user (trigger on_auth_user_created) *)
SignedUp(d) == UsedIds(d, "profiles")

(* the key a stored row is addressed by *)
SameKey(t, r1, r2) == r1.id = r2.id

(* variant: labels carry no UNIQUE(project_id, name) *)
UniqueViolation_MembersOnly(t, others, new) ==
  CASE t = "project_members" ->
         \E m \in others : m.project_id = new.project_id /\ m.user_id = new.user_id
    [] OTHER -> FALSE

(* UNIQUE(project_id, user_id), UNIQUE(project_id, name); others are the rows other
   than the one being written *)
UniqueViolation(t, others, new) ==
  CASE t = "project_members" ->
         \E m \in others : m.project_id = new.project_id /\ m.user_id = new.user_id
    [] t = "labels" ->
         \E l \in others : l.project_id = new.project_id /\ l.name = new.name
    [] OTHER -> FALSE

(* id uuid PRIMARY KEY: another stored row has the id of the proposed row *)
PrimaryKeyViolation(t, others, new) == \E r \in others : r.id = new.id

(* a stored row REFERENCES the id of old; no foreign key has an ON UPDATE action, so
   the id of such a row cannot be changed *)
Referenced(t, d, old) ==
  CASE t = "projects" ->
         \E r \in d.project_members \cup d.labels \cup d.images : r.project_id = old.id
    [] t = "labels" -> \E a \in d.annotations : a.label_id = old.id
    [] t = "images" -> \E a \in d.annotations : a.image_id = old.id
    [] OTHER -> FALSE

(* REFERENCES ... of the proposed row *)
ForeignKeyViolation(t, d, new) ==
  CASE t = "projects" -> new.created_by \notin SignedUp(d)
    [] t = "project_members" ->
         new.project_id \notin UsedIds(d, "projects") \/ new.user_id \notin SignedUp(d)
    [] t = "labels" -> new.project_id \notin UsedIds(d, "projects")
    [] t = "images" -> new.project_id \notin UsedIds(d, "projects")
    [] t = "annotations" ->
         \/ new.image_id \notin UsedIds(d, "images")
         \/ new.label_id \notin UsedIds(d, "labels")
         \/ new.created_by \notin SignedUp(d)
    [] OTHER -> FALSE

(* variant: annotations do not follow their image or label *)
Cascade_AnnotationsStay(d) ==
  LET ms == {m \in d.project_members : m.project_id \in UsedIds(d, "projects")}
      ls == {l \in d.labels : l.project_id \in UsedIds(d, "projects")}
      is == {i \in d.images : i.project_id \in UsedIds(d, "projects")}
  IN [d EXCEPT !.project_members = ms, !.labels = ls, !.images = is]

(* ON DELETE CASCADE: rows whose parent is gone go with it *)
Cascade(d) ==
  LET ms == {m \in d.project_members : m.project_id \in UsedIds(d, "projects")}
      ls == {l \in d.labels : l.project_id \in UsedIds(d, "projects")}
      is == {i \in d.images : i.project_id \in UsedIds(d, "projects")}
      as == {a \in d.annotations : /\ a.image_id \in {i.id : i \in is}
                                   /\ a.label_id \in {l.id : l \in ls}}
  IN [d EXCEPT !.project_members = ms, !.labels = ls, !.images = is, !.annotations = as]

(* variant: a conflicting row is skipped and the statement reports success *)
InsertOutcome_MasksConflict(d, pol, q, t, new) ==
  IF ~Permits(d, pol, q, "INSERT", t, NoRow, new) THEN "PolicyDenied"
  ELSE IF PrimaryKeyViolation(t, d[t], new) THEN "UniqueConstraintViolation"
  ELSE IF UniqueViolation(t, d[t], new) THEN "ok"
  ELSE IF ForeignKeyViolation(t, d, new) THEN "ForeignKeyViolation"
  ELSE "ok"

(* outcome of INSERT INTO t by q *)
InsertOutcome(d, pol, q, t, new) ==
  IF ~Permits(d, pol, q, "INSERT", t, NoRow, new) THEN "PolicyDenied"
  ELSE IF PrimaryKeyViolation(t, d[t], new) THEN "UniqueConstraintViolation"
  ELSE IF UniqueViolation(t, d[t], new) THEN "UniqueConstraintViolation"
  ELSE IF ForeignKeyViolation(t, d, new) THEN "ForeignKeyViolation"
  ELSE "ok"

(* variant: an approved or rejected annotation keeps its verdict *)
UpdateOutcome_VerdictFinal(d, pol, q, t, old, new) ==
  IF ~Permits(d, pol, q, "UPDATE", t, old, new) THEN "PolicyDenied"
  ELSE IF t = "annotations" /\ old.is_approved # "null" /\ new.is_approved # old.is_approved
       THEN "PolicyDenied"
  ELSE IF PrimaryKeyViolation(t, d[t] \ {old}, new) THEN "UniqueConstraintViolation"
  ELSE IF UniqueViolation(t, d[t] \ {old}, new) THEN "UniqueConstraintViolation"
  ELSE IF ForeignKeyViolation(t, d, new) THEN "ForeignKeyViolation"
  ELSE IF ~SameKey(t, new, old) /\ Referenced(t, d, old) THEN "ForeignKeyViolation"
  ELSE "ok"

(* outcome of UPDATE t SET ... WHERE <key of old> by q *)
UpdateOutcome(d, pol, q, t, old, new) ==
  IF ~Permits(d, pol, q, "UPDATE", t, old, new) THEN "PolicyDenied"
  ELSE IF PrimaryKeyViolation(t, d[t] \ {old}, new) THEN "UniqueConstraintViolation"
  ELSE IF UniqueViolation(t, d[t] \ {old}, new) THEN "UniqueConstraintViolation"
  ELSE IF ForeignKeyViolation(t, d, new) THEN "ForeignKeyViolation"
  ELSE IF ~SameKey(t, new, old) /\ Referenced(t, d, old) THEN "ForeignKeyViolation"
  ELSE "ok"

(* outcome of DELETE FROM t WHERE <key of old> by q *)
DeleteOutcome(d, pol, q, t, old) ==
  IF ~Permits(d, pol, q, "DELETE", t, old, NoRow) THEN "PolicyDenied" ELSE "ok"

(* the stored rows a successful INSERT, UPDATE or DELETE leaves; the id of an inserted
   row counts as given out, with every id below it *)
AfterInsert(d, t, new) ==
  [d EXCEPT ![t] = @ \cup {new},
            !.issued = IF t \in Generated /\ new.id > @[t] THEN [@ EXCEPT ![t] = new.id]
                       ELSE @]

AfterUpdate(d, t, old, new) ==
  [d EXCEPT ![t] = (@ \ {old}) \cup {new},
            !.issued = IF t \in Generated /\ new.id > @[t] THEN [@ EXCEPT ![t] = new.id]
                       ELSE @]

AfterDelete(d, t, old) == Cascade([d EXCEPT ![t] = @ \ {old}])

(* the stored rows a request leaves: those of a successful statement, else the rows
   it found *)
InsertEffect(d, pol, q, t, new) ==
  IF InsertOutcome(d, pol, q, t, new) = "ok" THEN AfterInsert(d, t, new) ELSE d

UpdateEffect(d, pol, q, t, old, new) ==
  IF UpdateOutcome(d, pol, q, t, old, new) = "ok" THEN AfterUpdate(d, t, old, new) ELSE d

DeleteEffect(d, pol, q, t, old) ==
  IF DeleteOutcome(d, pol, q, t, old) = "ok" THEN AfterDelete(d, t, old) ELSE d

(* the key a request that sends no id gets: gen_random_uuid() gives an id that no row
   of the table has carried before, taken here as the least such id *)
FreeIds(d, t) ==
  IF t \in Generated THEN {i \in IdsOf(t) : i > d.issued[t]}
  ELSE IdsOf(t) \ UsedIds(d, t)

LeastFreeId(d, t) == CHOOSE i \in FreeIds(d, t) : \A j \in FreeIds(d, t) : i <= j

(* rows a client may propose for INSERT: every column is the caller's to send, the key
   included (DEFAULT gen_random_uuid() applies only when id is left out) *)
InsertPayloads(t) == RowsOf(t)

(* the rows an INSERT stores when it leaves id and is_approved to their DEFAULTs, as
   the pages do *)
DefaultKeyPayloads(d, t) ==
  IF FreeIds(d, t) = {} THEN {}
  ELSE IF t = "annotations"
       THEN {r \in InsertPayloads(t) : r.id = LeastFreeId(d, t) /\ r.is_approved = "null"}
       ELSE {r \in InsertPayloads(t) : r.id = LeastFreeId(d, t)}

(* rows an UPDATE of old may propose: every column is the caller's to set, the key
   included *)
UpdatePayloads(t, old) == RowsOf(t)

(* authenticated callers and the anonymous caller *)
Authenticated == SignedUp(db)

Callers == Authenticated \cup {NULL}

SetDb(d) ==
  /\ profiles' = d.profiles
  /\ projects' = d.projects
  /\ project_members' = d.project_members
  /\ labels' = d.labels
  /\ images' = d.images
  /\ annotations' = d.annotations
  /\ issued' = d.issued

(* ---- the pages of the web client ---- *)
(* .limit(5) of the dashboard's project query *)
RecentLimit == 5

(* calls of the pages' async functions that await a response at one time *)
MaxCalls == 2

(* useState of Dashboard: stats before the first fetch *)
StatsInit == [totalProjects |-> 0, totalImages |-> 0, recentProjects |-> {}]

(* the state of the mounted page component as useState creates it, with the target of
   the latest navigate() that left the page ("none": the page is shown) and the latest
   toast; editingLabel is the label the edit dialog was opened for (NoRow: closed) *)
ViewInit ==
  [navigate |-> "none", project |-> NoRow, images |-> {}, labels |-> EmptyBag,
   stats |-> StatsInit, toast |-> "none", loading |-> TRUE, editingLabel |-> NoRow]

(* the browser: the page the router shows, the session user (useAuth), the :id of the
   route, the state of the page component, and the calls of async functions that have
   not returned yet, oldest first *)
ClientInit ==
  [page |-> "none", user |-> NULL, id |-> NULL, view |-> ViewInit, calls |-> <<>>]

(* the pages with a mount effect, and every page *)
Pages == {"ProjectDetail", "Dashboard", "LabelManagement"}

Routes == Pages \cup {"ImageUpload"}

(* ---- requests (supabase.from(t)...) and the responses of the store ---- *)
(* .select('*').eq(col, v) or .in(col, vals), with .single() and .limit(n) (NULL: none) *)
SelectRequest(t, col, vals, single, limit) ==
  [op |-> "select", t |-> t, col |-> col, vals |-> vals, new |-> NoRow,
   single |-> single, limit |-> limit]

(* .insert(new), with .select().single() when single *)
InsertRequest(t, new, single) ==
  [op |-> "insert", t |-> t, col |-> "id", vals |-> {}, new |-> new,
   single |-> single, limit |-> NULL]

(* .update(new).eq('id', id).select().single() *)
UpdateRequest(t, id, new) ==
  [op |-> "update", t |-> t, col |-> "id", vals |-> {id}, new |-> new,
   single |-> TRUE, limit |-> NULL]

(* .delete().eq('id', id) *)
DeleteRequest(t, id) ==
  [op |-> "delete", t |-> t, col |-> "id", vals |-> {id}, new |-> NoRow,
   single |-> FALSE, limit |-> NULL]

NoRequest == SelectRequest("none", "id", {}, FALSE, NULL)

(* a request that has no response yet, and one that failed on its way to the store *)
Pending == [error |-> "pending", rows |-> {}]

FetchError == [error |-> "FetchError", rows |-> {}]

(* supabase.from(t).select('*'): the rows of t the caller's SELECT policies let through *)
SelectRows(d, pol, q, t) == {r \in d[t] : UsingOk(t, "SELECT", d, pol, q, r)}

(* .single(): an error unless exactly one row came back *)
Single(rows) ==
  IF Cardinality(rows) = 1 THEN [error |-> "none", rows |-> rows]
  ELSE [error |-> "PGRST116", rows |-> {}]

(* the data of a response to .single() *)
TheRow(rows) == CHOOSE r \in rows : TRUE

(* the response to a request that addresses one row by its key k: a row the caller may
   not see is filtered out by row-level security before the command reaches it *)
ById(d, pol, q, action, t, k, new) ==
  LET targets == {r \in d[t] : /\ SameKey(t, r, k)
                               /\ UsingOk(t, "SELECT", d, pol, q, r)
                               /\ action \in {"UPDATE", "DELETE"} =>
                                    UsingOk(t, action, d, pol, q, r)}
  IN IF targets = {} THEN [error |-> "none", rows |-> {}]
     ELSE LET old == CHOOSE r \in targets : TRUE
              res == CASE action = "SELECT" -> "ok"
                       [] action = "UPDATE" -> UpdateOutcome(d, pol, q, t, old, new)
                       [] action = "DELETE" -> DeleteOutcome(d, pol, q, t, old)
          IN IF res # "ok" THEN [error |-> res, rows |-> {}]
             ELSE [error |-> "none", rows |-> IF action = "UPDATE" THEN {new} ELSE {old}]

(* the results .order('created_at').limit(n) can give: created_at is not stored, so
   any n of the rows can be the first n *)
Limit(rows, n) ==
  IF n = NULL \/ Cardinality(rows) <= n THEN {rows}
  ELSE {some \in SUBSET rows : Cardinality(some) = n}

(* the row an UPDATE with payload new makes of the stored row old *)
Patched(old, new) == [f \in DOMAIN old |-> IF f \in DOMAIN new THEN new[f] ELSE old[f]]

(* what the store can answer to request req of caller q on the stored rows d, and the
   rows it leaves: the key of an inserted row is generated by the store *)
Respond(d, pol, q, req) ==
  CASE req.op = "select" ->
         {[res |-> IF req.single THEN Single(some) ELSE [error |-> "none", rows |-> some],
           db |-> d] :
            some \in Limit({r \in SelectRows(d, pol, q, req.t) : r[req.col] \in req.vals},
                           req.limit)}
    [] req.op = "insert" ->
         {[res |-> IF InsertOutcome(d, pol, q, req.t, new) # "ok"
                   THEN [error |-> InsertOutcome(d, pol, q, req.t, new), rows |-> {}]
                   ELSE [error |-> "none", rows |-> IF req.single THEN {new} ELSE {}],
           db |-> InsertEffect(d, pol, q, req.t, new)] :
            new \in {r \in DefaultKeyPayloads(d, req.t) :
                       \A f \in DOMAIN req.new : r[f] = req.new[f]}}
    [] req.op \in {"update", "delete"} ->
         LET stored == {r \in d[req.t] : r.id \in req.vals}
         IN IF stored = {}
            THEN {[res |-> IF req.single THEN Single({}) ELSE [error |-> "none", rows |-> {}],
                   db |-> d]}
            ELSE LET old == CHOOSE r \in stored : TRUE
                     new == IF req.op = "update" THEN Patched(old, req.new) ELSE NoRow
                     got == ById(d, pol, q, IF req.op = "update" THEN "UPDATE" ELSE "DELETE",
                                 req.t, old, new)
                 IN {[res |-> IF got.error # "none" THEN got
                              ELSE IF req.single THEN Single(got.rows)
                              ELSE [error |-> "none", rows |-> {}],
                      db |-> IF got.error # "none" \/ got.rows = {} THEN d
                             ELSE IF req.op = "update" THEN AfterUpdate(d, req.t, old, new)
                             ELSE AfterDelete(d, req.t, old)]}

(* the store's answers and the failed fetch, which leaves the stored rows alone *)
Responses(d, pol, q, req) == Respond(d, pol, q, req) \cup {[res |-> FetchError, db |-> d]}

(* ---- calls of async functions ---- *)
(* the text in a name field: white space before, the text between, white space after *)
FormNames == [lead : BOOLEAN, core : Names \cup {Blank}, trail : BOOLEAN]

(* String.prototype.trim *)
trim(name) == name.core

(* the required attribute of the name inputs: a form with an empty value is not
   submitted *)
Required(name) == name.lead \/ name.core # Blank \/ name.trail

(* the argument of a call without one *)
NoArg == [label |-> NoRow, name |-> [lead |-> FALSE, core |-> Blank, trail |-> FALSE]]

(* a call of function fn that has not reached an await: user and id are the values its
   closure holds, arg the label and the name in the form it was called for *)
NewCall(fn, user, id, arg) ==
  [fn |-> fn, at |-> "call", user |-> user, id |-> id, arg |-> arg, held |-> {},
   caller |-> user, req |-> NoRequest, res |-> Pending, live |-> TRUE]

(* what a call does from the await it is at to the next: the view it leaves, then
   either the request it awaits next, with the rows it holds in local variables, or
   its return *)
Done(view) == [view |-> view, at |-> "done", req |-> NoRequest, held |-> {}]

Await(view, at, req, held) == [view |-> view, at |-> at, req |-> req, held |-> held]

(* ProjectDetail.fetchProjectData *)
fetchProjectData(view, c) ==
  CASE c.at = "call" ->
         IF c.id = NULL THEN Done(view)
         ELSE Await(view, "projects",
                    SelectRequest("projects", "id", {c.id}, TRUE, NULL), {})
    [] c.at # "call" /\ c.res.error # "none" ->
         Done([view EXCEPT !.toast = "Failed to load project", !.navigate = "/projects",
                           !.loading = FALSE])
    [] c.at = "projects" /\ c.res.error = "none" ->
         Await([view EXCEPT !.project = TheRow(c.res.rows)], "images",
               SelectRequest("images", "project_id", {c.id}, FALSE, NULL), {})
    [] c.at = "images" /\ c.res.error = "none" ->
         Await([view EXCEPT !.images = c.res.rows], "labels",
               SelectRequest("labels", "project_id", {c.id}, FALSE, NULL), {})
    [] c.at = "labels" /\ c.res.error = "none" ->
         Done([view EXCEPT !.labels = SetToBag(c.res.rows), !.loading = FALSE])

(* Dashboard.fetchDashboardStats *)
fetchDashboardStats(view, c) ==
  CASE c.at = "call" ->
         IF c.user = NULL THEN Done(view)
         ELSE Await(view, "projects",
                    SelectRequest("projects", "created_by", {c.user}, FALSE, RecentLimit), {})
    [] c.at # "call" /\ c.res.error # "none" -> Done([view EXCEPT !.loading = FALSE])
    [] c.at = "projects" /\ c.res.error = "none" ->
         Await(view, "images",
               SelectRequest("images", "project_id", {pj.id : pj \in c.res.rows}, FALSE, NULL),
               c.res.rows)
    [] c.at = "images" /\ c.res.error = "none" ->
         Done([view EXCEPT
                 !.stats = [totalProjects |-> Cardinality(c.held),
                            totalImages |-> Cardinality(c.res.rows),
                            recentProjects |->
                              {[id |-> pj.id, created_by |-> pj.created_by,
                                imageCount |->
                                  Cardinality({i \in c.res.rows : i.project_id = pj.id})] :
                               pj \in c.held}],
                 !.loading = FALSE])

(* the label list of a page is kept as a bag: how often each row is listed; the order
   of the list is that of created_at, which is not stored *)
(* prev.map(label => label.id === id ? data : label) *)
MapBag(prev, id, data) ==
  BagOfAll(LAMBDA label : IF label.id = id THEN data ELSE label, prev)

(* prev.filter(label => label.id !== labelId) *)
FilterBag(prev, labelId) ==
  [label \in {l \in BagToSet(prev) : l.id # labelId} |-> prev[label]]

(* LabelManagement.fetchLabels *)
fetchLabels(view, c) ==
  CASE c.at = "call" ->
         IF c.id = NULL THEN Done(view)
         ELSE Await(view, "labels",
                    SelectRequest("labels", "project_id", {c.id}, FALSE, NULL), {})
    [] c.at # "call" /\ c.res.error # "none" ->
         Done([view EXCEPT !.toast = "Failed to load labels", !.loading = FALSE])
    [] c.at = "labels" /\ c.res.error = "none" ->
         Done([view EXCEPT !.labels = SetToBag(c.res.rows), !.loading = FALSE])

(* variant: the new label is shown whatever the store answers *)
handleCreateLabel_Optimistic(view, c) ==
  CASE c.at = "call" ->
         IF c.id = NULL \/ trim(c.arg.name) = Blank THEN Done(view)
         ELSE Await(view, "insert",
                    InsertRequest("labels", [project_id |-> c.id, name |-> trim(c.arg.name)],
                                  TRUE), {})
    [] c.at = "insert" ->
         Done([view EXCEPT
                 !.labels = @ (+) SetToBag(IF c.res.error = "none" THEN c.res.rows
                                           ELSE {[id |-> NULL, project_id |-> c.id,
                                                  name |-> trim(c.arg.name)]}),
                 !.toast = "Label created successfully"])

(* LabelManagement.handleCreateLabel *)
handleCreateLabel(view, c) ==
  CASE c.at = "call" ->
         IF c.id = NULL \/ trim(c.arg.name) = Blank THEN Done(view)
         ELSE Await(view, "insert",
                    InsertRequest("labels", [project_id |-> c.id, name |-> trim(c.arg.name)],
                                  TRUE), {})
    [] c.at = "insert" /\ c.res.error # "none" ->
         Done([view EXCEPT !.toast = "Failed to create label"])
    [] c.at = "insert" /\ c.res.error = "none" ->
         Done([view EXCEPT !.labels = @ (+) SetToBag(c.res.rows),
                           !.toast = "Label created successfully"])

(* LabelManagement.handleUpdateLabel: editingLabel is the label the dialog was opened
   for, with the name the edit form holds *)
handleUpdateLabel(view, c) ==
  CASE c.at = "call" ->
         IF c.arg.label = NoRow THEN Done(view)
         ELSE Await(view, "update",
                    UpdateRequest("labels", c.arg.label.id, [name |-> trim(c.arg.name)]),
                    {})
    [] c.at = "update" /\ c.res.error # "none" ->
         Done([view EXCEPT !.toast = "Failed to update label"])
    [] c.at = "update" /\ c.res.error = "none" ->
         Done([view EXCEPT
                 !.labels = MapBag(@, c.arg.label.id, TheRow(c.res.rows)),
                 !.editingLabel = NoRow,
                 !.toast = "Label updated successfully"])

(* LabelManagement.handleDeleteLabel *)
handleDeleteLabel(view, c) ==
  CASE c.at = "call" ->
         Await(view, "delete", DeleteRequest("labels", c.arg.label.id), {})
    [] c.at = "delete" /\ c.res.error # "none" ->
         Done([view EXCEPT !.toast = "Failed to delete label"])
    [] c.at = "delete" /\ c.res.error = "none" ->
         Done([view EXCEPT !.labels = FilterBag(@, c.arg.label.id),
                           !.toast = "Label deleted successfully"])

(* Dashboard.handleSignOut: await signOut(), then navigate('/auth') *)
signOutThenLeave(view, c) ==
  CASE c.at = "call" -> Await(view, "signOut", NoRequest, {})
    [] c.at = "signOut" -> Done([view EXCEPT !.navigate = "/auth"])

(* the body of the function a call runs *)
Continue(view, c) ==
  CASE c.fn = "handleSignOut" -> signOutThenLeave(view, c)
    [] c.fn = "fetchProjectData" -> fetchProjectData(view, c)
    [] c.fn = "fetchDashboardStats" -> fetchDashboardStats(view, c)
    [] c.fn = "fetchLabels" -> fetchLabels(view, c)
    [] c.fn = "handleCreateLabel" -> handleCreateLabel(view, c)
    [] c.fn = "handleUpdateLabel" -> handleUpdateLabel(view, c)
    [] c.fn = "handleDeleteLabel" -> handleDeleteLabel(view, c)

(* the calls of a component that is unmounted go on, but its setState is ignored *)
Detached(calls) == [k \in DOMAIN calls |-> [calls[k] EXCEPT !.live = FALSE]]

Without(calls, k) == SubSeq(calls, 1, k - 1) \o SubSeq(calls, k + 1, Len(calls))

(* the browser after call c, which is at position k of the calls (0: it is new), has
   run to its next await: a call of an unmounted component changes no state but still
   raises toasts and navigates, and a navigate() leaves the page; a promise that is
   not a request to the store (signOut()) waits for no answer of the store, and when
   it has resolved the session is gone *)
Resume(cl, k, c) ==
  LET out == Continue(cl.view, c)
      view == IF c.live THEN out.view
              ELSE [cl.view EXCEPT !.toast = out.view.toast, !.navigate = out.view.navigate]
      next == [c EXCEPT !.at = out.at, !.req = out.req, !.held = out.held,
                        !.caller = cl.user,
                        !.res = IF out.req # NoRequest THEN Pending
                                ELSE [error |-> "none", rows |-> {}]]
      calls == IF out.at = "done" THEN (IF k = 0 THEN cl.calls ELSE Without(cl.calls, k))
               ELSE IF k = 0 THEN Append(cl.calls, next)
               ELSE [cl.calls EXCEPT ![k] = next]
  IN [cl EXCEPT !.user = IF c.at = "signOut" THEN NULL ELSE @,
                !.view = view,
                !.calls = IF view.navigate # cl.view.navigate THEN Detached(calls)
                          ELSE calls]

(* useEffect of the three pages, run for the session user and the route id the browser
   holds: without a session navigate('/auth') and return, else the page's fetch *)
MountEffect(cl) ==
  IF cl.page \notin Pages THEN cl
  ELSE IF cl.user = NULL
  THEN [cl EXCEPT !.view.navigate = "/auth", !.calls = Detached(cl.calls)]
  ELSE CASE cl.page = "ProjectDetail" ->
              IF cl.id = NULL THEN cl
              ELSE Resume(cl, 0, NewCall("fetchProjectData", cl.user, cl.id, NoArg))
         [] cl.page = "Dashboard" ->
              Resume(cl, 0, NewCall("fetchDashboardStats", cl.user, cl.id, NoArg))
         [] cl.page = "LabelManagement" ->
              IF cl.id = NULL THEN cl
              ELSE Resume(cl, 0, NewCall("fetchLabels", cl.user, cl.id, NoArg))

(* the router renders page for route id: a component that is shown already stays
   mounted, keeps its state and runs its effect again when the id has changed; any
   other page is mounted anew *)
Navigate(cl, page, id) ==
  IF cl.page = page /\ cl.view.navigate = "none"
  THEN IF cl.id = id THEN cl ELSE MountEffect([cl EXCEPT !.id = id])
  ELSE MountEffect([cl EXCEPT !.page = page, !.id = id, !.view = ViewInit,
                              !.calls = Detached(cl.calls)])

(* ---- ImageUpload page ---- *)
(* files a user picks in one session of the browser *)
NumFiles == 2

(* calls of uploadFiles that have not returned at one time *)
MaxRuns == 2

FileIds == 1..NumFiles

(* a picked file: a decodable image, a file of type image/* that does not decode, or a
   file of another type *)
FileTypes == {"image", "broken", "text"}

(* for (let progress = 0; progress <= 90; progress += 10) and progress: 100 on success *)
ProgressStep == 10

ProgressLast == 90

ProgressDone == 100

(* interface UploadFile; the preview is the object URL of the file, named by its id *)
UploadFiles ==
  [id : FileIds, type : {"image", "broken"}, progress : 0..ProgressDone,
   status : {"pending", "uploading", "success", "error"}, error : BOOLEAN]

NoToast == [title |-> "none", count |-> 0]

(* what a call of uploadFiles has done so far: image rows stored and files of the list
   moved to status success *)
NoLog == [stored |-> 0, moved |-> 0]

(* a call of uploadFiles at the click: the list, the user and the route id its closure
   holds, the position of its loop, the next progress value and successCount; later pc
   is the await it is at ("hung": a promise that never settles), caller the session
   user its request was sent for and res the response *)
NewRun(files, user, id) ==
  [pc |-> "call", files |-> files, i |-> 0, progress |-> 0, successCount |-> 0,
   user |-> user, id |-> id, caller |-> user, res |-> Pending, live |-> TRUE,
   log |-> NoLog]

(* useState of ImageUpload, the object URLs revoked so far, the toast raised by the
   latest step of the page, the route ids of the pending setTimeout callbacks, the
   number of file ids handed out, the calls of uploadFiles that have not returned, and
   the log of the call that returned last *)
UploadInit ==
  [files |-> <<>>, uploading |-> FALSE, revoked |-> {}, toast |-> NoToast,
   timers |-> <<>>, handed |-> 0, runs |-> <<>>, done |-> NoLog]

(* the page is unmounted: its state is gone, its calls go on *)
Unmounted(u) ==
  [u EXCEPT !.files = <<>>, !.uploading = FALSE, !.toast = NoToast, !.runs = Detached(@)]

(* setFiles(prev => prev.map(f => f.id === id ? {...f, status: 'uploading', progress: 0} : f)) *)
MarkUploading(files, id) ==
  [k \in DOMAIN files |->
     IF files[k].id = id THEN [files[k] EXCEPT !.status = "uploading", !.progress = 0]
     ELSE files[k]]

(* setFiles(prev => prev.map(f => f.id === id ? {...f, progress} : f)) *)
SetProgress(files, id, progress) ==
  [k \in DOMAIN files |->
     IF files[k].id = id THEN [files[k] EXCEPT !.progress = progress] ELSE files[k]]

(* setFiles(prev => prev.map(f => f.id === id ? {...f, status: 'success', progress: 100} : f)) *)
MarkSuccess(files, id) ==
  [k \in DOMAIN files |->
     IF files[k].id = id THEN [files[k] EXCEPT !.status = "success", !.progress = ProgressDone]
     ELSE files[k]]

(* variant: a failed file starts over from progress 0 *)
MarkError_ResetsProgress(files, id) ==
  [k \in DOMAIN files |->
     IF files[k].id = id
     THEN [files[k] EXCEPT !.status = "error", !.error = TRUE, !.progress = 0]
     ELSE files[k]]

(* setFiles(prev => prev.map(f => f.id === id ? {...f, status: 'error', error: 'Upload failed'} : f)) *)
MarkError(files, id) ==
  [k \in DOMAIN files |->
     IF files[k].id = id THEN [files[k] EXCEPT !.status = "error", !.error = TRUE]
     ELSE files[k]]

(* position of the first file after position i that the captured list holds as
   pending; 0 when there is none *)
NextPending(files, i) ==
  IF \E k \in (i + 1)..Len(files) : files[k].status = "pending"
  THEN CHOOSE k \in (i + 1)..Len(files) :
         /\ files[k].status = "pending"
         /\ \A j \in (i + 1)..(k - 1) : files[j].status # "pending"
  ELSE 0

(* the loop of uploadFiles for call r, which is at position k of the calls (0: it is
   new), from position r.i of its captured list up to its next await: the next pending
   file is marked as uploading and its progress timer is started, or the loop is over:
   setUploading(false) and, with successCount > 0, the toast and the timer of navigate.
   setFiles and setUploading of an unmounted page are ignored *)
Advance(u, k, r) ==
  LET n == NextPending(r.files, r.i)
      rest == IF k = 0 THEN u.runs ELSE Without(u.runs, k)
      next == [r EXCEPT !.pc = "progress", !.i = n, !.progress = 0]
  IN IF n # 0
     THEN [u EXCEPT !.files = IF r.live THEN MarkUploading(@, r.files[n].id) ELSE @,
                    !.toast = NoToast,
                    !.runs = IF k = 0 THEN Append(@, next) ELSE [@ EXCEPT ![k] = next]]
     ELSE [u EXCEPT !.uploading = IF r.live THEN FALSE ELSE @,
                    !.toast = IF r.successCount > 0
                              THEN [title |-> "Upload Complete", count |-> r.successCount]
                              ELSE NoToast,
                    !.timers = IF r.successCount > 0 THEN Append(@, r.id) ELSE @,
                    !.done = r.log,
                    !.runs = rest]

(* img.src = uploadFile.preview with only img.onload set: the insert is sent once the
   image has loaded, and the promise never settles when it does not load. A file that
   does not decode never loads; a revoked object URL loads only while the browser still
   holds the decoded preview *)
LoadOutcomes(f, revoked) ==
  IF f.type = "broken" THEN {"hung"}
  ELSE IF f.id \in revoked THEN {"insert", "hung"}
  ELSE {"insert"}

(* ---- operations; last is the outcome the caller of the latest operation saw ---- *)
Init ==
  /\ policies = {}
  /\ migrated = 0
  /\ profiles = {}
  /\ projects = {}
  /\ project_members = {}
  /\ labels = {}
  /\ images = {}
  /\ annotations = {}
  /\ issued = IssuedFor(projects, project_members, labels, images, annotations)
  /\ last = "none"
  /\ client = ClientInit
  /\ upload = UploadInit

(* every migration has run and every user has signed up; a user's role is any value
   "Users can update own profile" lets that user set *)
InitFinal ==
  /\ policies = FinalPolicies
  /\ migrated = Len(Migrations)
  /\ \E role \in [Users -> user_role] : profiles = {[id |-> u, role |-> role[u]] : u \in Users}
  /\ projects = {}
  /\ project_members = {}
  /\ labels = {}
  /\ images = {}
  /\ annotations = {}
  /\ issued = IssuedFor(projects, project_members, labels, images, annotations)
  /\ last = "none"
  /\ client = ClientInit
  /\ upload = UploadInit

(* every migration has run, every user has signed up and kept the role
   handle_new_user() gave, and owns a project; the first project holds a label and an
   image *)
InitPages ==
  /\ policies = FinalPolicies
  /\ migrated = Len(Migrations)
  /\ profiles = {[id |-> u, role |-> "annotator"] : u \in Users}
  /\ projects = {[id |-> u, created_by |-> u] : u \in Users}
  /\ project_members = {}
  /\ labels = {[id |-> 1, project_id |-> 1, name |-> 1]}
  /\ images = {[id |-> 1, project_id |-> 1]}
  /\ annotations = {}
  /\ issued = IssuedFor(projects, project_members, labels, images, annotations)
  /\ last = "none"
  /\ client = ClientInit
  /\ upload = UploadInit

(* a user has created a project with a label and an image, no annotation is stored
   yet, and the users have any roles *)
InitAnnotated ==
  /\ policies = FinalPolicies
  /\ migrated = Len(Migrations)
  /\ \E role \in [Users -> user_role] : profiles = {[id |-> u, role |-> role[u]] : u \in Users}
  /\ \E u1 \in Users : projects = {[id |-> 1, created_by |-> u1]}
  /\ annotations = {}
  /\ project_members = {}
  /\ labels = {[id |-> 1, project_id |-> 1, name |-> 1]}
  /\ images = {[id |-> 1, project_id |-> 1]}
  /\ issued = IssuedFor(projects, project_members, labels, images, annotations)
  /\ last = "none"
  /\ client = ClientInit
  /\ upload = UploadInit

(* a user has created a project and enrolled in it; the second user has no account
   yet *)
Newcomer == NumUsers

InitEstablished ==
  /\ policies = FinalPolicies
  /\ migrated = Len(Migrations)
  /\ \E u1 \in Users \ {Newcomer} :
       /\ profiles = {[id |-> u1, role |-> "annotator"]}
       /\ projects = {[id |-> 1, created_by |-> u1]}
       /\ project_members = {[id |-> 1, project_id |-> 1, user_id |-> u1]}
  /\ labels = {}
  /\ images = {}
  /\ annotations = {}
  /\ issued = IssuedFor(projects, project_members, labels, images, annotations)
  /\ last = "none"
  /\ client = ClientInit
  /\ upload = UploadInit

(* two users own a project each, and the first has opened the upload page of one of
   the projects *)
InitUpload ==
  /\ policies = FinalPolicies
  /\ migrated = Len(Migrations)
  /\ profiles = {[id |-> u, role |-> "annotator"] : u \in Users}
  /\ projects = {[id |-> 1, created_by |-> 1], [id |-> 2, created_by |-> 2]}
  /\ project_members = {}
  /\ labels = {}
  /\ images = {}
  /\ annotations = {}
  /\ issued = IssuedFor(projects, project_members, labels, images, annotations)
  /\ last = "none"
  /\ \E id \in ProjectIds :
       client = [ClientInit EXCEPT !.page = "ImageUpload", !.user = 1, !.id = id]
  /\ upload = UploadInit

(* two users own a project each; no label exists and no page is open *)
InitLabelPage ==
  /\ policies = FinalPolicies
  /\ migrated = Len(Migrations)
  /\ profiles = {[id |-> u, role |-> "annotator"] : u \in Users}
  /\ projects = {[id |-> 1, created_by |-> 1], [id |-> 2, created_by |-> 2]}
  /\ project_members = {}
  /\ labels = {}
  /\ images = {}
  /\ annotations = {}
  /\ issued = IssuedFor(projects, project_members, labels, images, annotations)
  /\ last = "none"
  /\ client = ClientInit
  /\ upload = UploadInit

(* run the next migration file *)
ApplyMigration ==
  /\ migrated < Len(Migrations)
  /\ migrated' = migrated + 1
  /\ policies' = PoliciesAfter(policies, Migrations[migrated + 1])
  /\ UNCHANGED <<profiles, projects, project_members, labels, images, annotations,
                 issued, last, client, upload>>

(* handle_new_user(): a new auth user gets a profile with the default role *)
Signup(u) ==
  /\ Migrated
  /\ u \notin SignedUp(db)
  /\ profiles' = profiles \cup {[id |-> u, role |-> "annotator"]}
  /\ last' = "ok"
  /\ UNCHANGED <<policies, migrated, projects, project_members, labels, images,
                 annotations, issued, client, upload>>

(* In the four request actions d is the stored state the request runs on, res its
   outcome and d2 the stored state it leaves; each is bound once. *)
Select(q, t, old) ==
  /\ Migrated
  /\ old \in db[t]
  /\ last' = IF Permits(db, policies, q, "SELECT", t, old, NoRow) THEN "ok" ELSE "PolicyDenied"
  /\ UNCHANGED <<policies, migrated, profiles, projects, project_members, labels, images,
                 annotations, issued, client, upload>>

Insert(q, t, new) ==
  /\ Migrated
  /\ new \in InsertPayloads(t)
  /\ \E d \in {db} : \E res \in {InsertOutcome(d, policies, q, t, new)} :
       \E d2 \in {IF res = "ok" THEN AfterInsert(d, t, new) ELSE d} :
          last' = res /\ SetDb(d2)
  /\ UNCHANGED <<policies, migrated, client, upload>>

Update(q, t, old, new) ==
  /\ Migrated
  /\ old \in db[t]
  /\ new \in UpdatePayloads(t, old)
  /\ \E d \in {db} : \E res \in {UpdateOutcome(d, policies, q, t, old, new)} :
       \E d2 \in {IF res = "ok" THEN AfterUpdate(d, t, old, new) ELSE d} :
          last' = res /\ SetDb(d2)
  /\ UNCHANGED <<policies, migrated, client, upload>>

Delete(q, t, old) ==
  /\ Migrated
  /\ old \in db[t]
  /\ \E d \in {db} : \E res \in {DeleteOutcome(d, policies, q, t, old)} :
       \E d2 \in {IF res = "ok" THEN AfterDelete(d, t, old) ELSE d} :
          last' = res /\ SetDb(d2)
  /\ UNCHANGED <<policies, migrated, client, upload>>

(* ---- the browser: page loads, responses, sign-out ---- *)
(* a browser with session user (NULL: signed out) opens a page: the component is
   mounted and its effect runs up to its first await; Dashboard has no :id *)
Mount(page, user, id) ==
  /\ Migrated
  /\ page = "Dashboard" => id = NULL
  /\ page # "Dashboard" => id # NULL
  /\ \E cl \in {MountEffect([page |-> page, user |-> user, id |-> id, view |-> ViewInit,
                             calls |-> Detached(client.calls)])} :
        /\ Len(cl.calls) <= MaxCalls
        /\ client' = cl
  /\ upload' = Unmounted(upload)
  /\ UNCHANGED <<policies, migrated, profiles, projects, project_members, labels, images,
                 annotations, issued, last>>

(* the :id of the route changes under the page that is shown (history traversal): the
   component keeps its state and its effect runs again *)
RouteParam(id) ==
  /\ Migrated
  /\ client.page \in Routes \ {"Dashboard"}
  /\ client.view.navigate = "none"
  /\ id # client.id
  /\ \E cl \in {Navigate(client, client.page, id)} :
        /\ Len(cl.calls) <= MaxCalls
        /\ client' = cl
  /\ UNCHANGED <<policies, migrated, profiles, projects, project_members, labels, images,
                 annotations, issued, last, upload>>

(* the button Sign Out of the Dashboard, rendered for a session user: handleSignOut
   runs to its await signOut(); Deliver is the step in which signOut() resolves *)
handleSignOut ==
  /\ Migrated
  /\ client.page = "Dashboard"
  /\ client.user # NULL
  /\ client.view.navigate = "none"
  /\ Len(client.calls) < MaxCalls
  /\ client' = Resume(client, 0, NewCall("handleSignOut", client.user, client.id, NoArg))
  /\ UNCHANGED <<policies, migrated, profiles, projects, project_members, labels, images,
                 annotations, issued, last, upload>>

(* the buttons of ProjectDetail (once loaded) and of the Dashboard (with a session user)
   that call navigate('/projects') *)
backToProjects ==
  /\ Migrated
  /\ client.view.navigate = "none"
  /\ \/ client.page = "ProjectDetail" /\ ~client.view.loading
     \/ client.page = "Dashboard" /\ client.user # NULL
  /\ client' = [client EXCEPT !.view.navigate = "/projects", !.calls = Detached(@)]
  /\ UNCHANGED <<policies, migrated, profiles, projects, project_members, labels, images,
                 annotations, issued, last, upload>>

(* the store serves the request call k awaits, or the request fails on its way *)
Serve(k) ==
  /\ k \in DOMAIN client.calls
  /\ client.calls[k].res.error = "pending"
  /\ \E d \in {db} :
     \E a \in Responses(d, policies, client.calls[k].caller, client.calls[k].req) :
        /\ SetDb(a.db)
        /\ client' = [client EXCEPT !.calls[k].res = a.res]
  /\ UNCHANGED <<policies, migrated, last, upload>>

(* the response reaches the browser and call k runs on to its next await *)
Deliver(k) ==
  /\ k \in DOMAIN client.calls
  /\ client.calls[k].res.error # "pending"
  /\ \E cl \in {Resume(client, k, client.calls[k])} :
        /\ client' = cl
        /\ upload' = IF cl.view.navigate # client.view.navigate THEN Unmounted(upload)
                     ELSE upload
  /\ UNCHANGED <<policies, migrated, profiles, projects, project_members, labels, images,
                 annotations, issued, last>>

(* ---- ImageUpload: event handlers and the continuations of uploadFiles ---- *)
UploadOpen ==
  /\ Migrated
  /\ client.page = "ImageUpload"
  /\ client.view.navigate = "none"

UploadUnchanged ==
  UNCHANGED <<policies, migrated, profiles, projects, project_members, labels, images,
              annotations, issued, last, client>>

(* files are dropped or picked: the image files join the list as pending, each with a
   fresh id and an object URL; any other file raises the "Invalid Files" toast *)
handleFiles(fileList) ==
  /\ UploadOpen
  /\ LET imageFiles == SelectSeq(fileList, LAMBDA type : type # "text")
         newFiles == [k \in 1..Len(imageFiles) |->
                        [id |-> upload.handed + k, type |-> imageFiles[k], progress |-> 0,
                         status |-> "pending", error |-> FALSE]]
     IN /\ upload.handed + Len(imageFiles) <= NumFiles
        /\ upload' = [upload EXCEPT
                        !.toast = IF Len(imageFiles) # Len(fileList)
                                  THEN [title |-> "Invalid Files", count |-> 0]
                                  ELSE NoToast,
                        !.files = upload.files \o newFiles,
                        !.handed = upload.handed + Len(imageFiles)]
  /\ UploadUnchanged

(* the X button of a file shown as pending: its object URL is revoked and it leaves
   the list *)
removeFile(fileId) ==
  /\ UploadOpen
  /\ \E k \in DOMAIN upload.files :
        upload.files[k].id = fileId /\ upload.files[k].status = "pending"
  /\ upload' = [upload EXCEPT
                  !.toast = NoToast,
                  !.revoked = upload.revoked \cup {fileId},
                  !.files = SelectSeq(upload.files, LAMBDA f : f.id # fileId)]
  /\ UploadUnchanged

(* the Upload button (rendered while a file is pending, disabled while uploading), up
   to the first await *)
uploadFiles ==
  /\ UploadOpen
  /\ \E k \in DOMAIN upload.files : upload.files[k].status = "pending"
  /\ ~upload.uploading
  /\ Len(upload.runs) < MaxRuns
  /\ upload' = IF client.id = NULL \/ client.user = NULL \/ Len(upload.files) = 0
               THEN [upload EXCEPT !.toast = NoToast]
               ELSE Advance([upload EXCEPT !.uploading = TRUE], 0,
                            NewRun(upload.files, client.user, client.id))
  /\ UploadUnchanged

(* the 100 ms timer of the progress loop of call k fires: the progress is shown and
   either the next timer is started or the preview is loaded for its dimensions *)
uploadFiles_Progress(k) ==
  /\ k \in DOMAIN upload.runs
  /\ upload.runs[k].pc = "progress"
  /\ LET r == upload.runs[k]
         shown == IF r.live THEN SetProgress(upload.files, r.files[r.i].id, r.progress)
                  ELSE upload.files
     IN upload' = [upload EXCEPT
                     !.files = shown,
                     !.toast = NoToast,
                     !.runs[k] = IF r.progress + ProgressStep <= ProgressLast
                                 THEN [r EXCEPT !.progress = r.progress + ProgressStep]
                                 ELSE [r EXCEPT !.pc = "load"]]
  /\ UploadUnchanged

(* the preview of the file of call k has loaded and the insert is sent for the session
   user, or it fails to load and nothing resumes the call *)
uploadFiles_Load(k) ==
  /\ k \in DOMAIN upload.runs
  /\ upload.runs[k].pc = "load"
  /\ \E pc \in LoadOutcomes(upload.runs[k].files[upload.runs[k].i], upload.revoked) :
        upload' = [upload EXCEPT
                     !.toast = NoToast,
                     !.runs[k] = [@ EXCEPT !.pc = pc, !.caller = client.user,
                                           !.res = Pending]]
  /\ UploadUnchanged

(* the store serves the insert of call k, or the request fails on its way *)
uploadFiles_Request(k) ==
  /\ k \in DOMAIN upload.runs
  /\ upload.runs[k].pc = "insert"
  /\ upload.runs[k].res.error = "pending"
  /\ \E d \in {db} :
     \E a \in Responses(d, policies, upload.runs[k].caller,
                        InsertRequest("images", [project_id |-> upload.runs[k].id], FALSE)) :
        /\ SetDb(a.db)
        /\ upload' = [upload EXCEPT
                        !.runs[k].res = a.res,
                        !.runs[k].log.stored = IF a.res.error = "none" THEN @ + 1 ELSE @]
  /\ UNCHANGED <<policies, migrated, last, client>>

(* the response to the insert of call k arrives: the file is marked success or error
   (catch), and the loop goes on to the next file or ends *)
uploadFiles_Insert(k) ==
  /\ k \in DOMAIN upload.runs
  /\ upload.runs[k].pc = "insert"
  /\ upload.runs[k].res.error # "pending"
  /\ LET r == upload.runs[k]
         f == r.files[r.i]
         marked == IF ~r.live THEN upload.files
                   ELSE IF r.res.error = "none" THEN MarkSuccess(upload.files, f.id)
                   ELSE MarkError(upload.files, f.id)
     IN upload' = Advance([upload EXCEPT !.files = marked], k,
                          IF r.res.error = "none"
                          THEN [r EXCEPT !.successCount = @ + 1,
                                         !.log.moved = IF marked # upload.files THEN @ + 1
                                                       ELSE @]
                          ELSE r)
  /\ UploadUnchanged

(* the callback of setTimeout(() => navigate(`/projects/${id}`), 1500) at position j
   fires: the router shows ProjectDetail of that project *)
navigateBack(j) ==
  /\ j \in DOMAIN upload.timers
  /\ \E cl \in {Navigate(client, "ProjectDetail", upload.timers[j])} :
        /\ Len(cl.calls) <= MaxCalls
        /\ client' = cl
  /\ upload' = Unmounted([upload EXCEPT !.timers = Without(@, j)])
  /\ UNCHANGED <<policies, migrated, profiles, projects, project_members, labels, images,
                 annotations, issued, last>>

(* the buttons "Back to Project" and "View Project": navigate(`/projects/${id}`) *)
backToProject ==
  /\ UploadOpen
  /\ client.id # NULL
  /\ \E cl \in {Navigate(client, "ProjectDetail", client.id)} :
        /\ Len(cl.calls) <= MaxCalls
        /\ client' = cl
  /\ upload' = Unmounted(upload)
  /\ UNCHANGED <<policies, migrated, profiles, projects, project_members, labels, images,
                 annotations, issued, last>>

(* ---- LabelManagement: the forms and buttons that call the three handlers ---- *)
LabelPageOpen ==
  /\ Migrated
  /\ client.page = "LabelManagement"
  /\ client.view.navigate = "none"
  /\ ~client.view.loading
  /\ Len(client.calls) < MaxCalls

LabelPageUnchanged ==
  UNCHANGED <<policies, migrated, profiles, projects, project_members, labels, images,
              annotations, issued, last, upload>>

(* the create form is submitted with a name *)
CreateLabel(name) ==
  /\ LabelPageOpen
  /\ Required(name)
  /\ client' = Resume(client, 0, NewCall("handleCreateLabel", client.user, client.id,
                                         [label |-> NoRow, name |-> name]))
  /\ LabelPageUnchanged

(* the edit button of a listed label, and Cancel or a click outside the dialog (NoRow) *)
setEditingLabel(label) ==
  /\ Migrated
  /\ client.page = "LabelManagement"
  /\ client.view.navigate = "none"
  /\ ~client.view.loading
  /\ label \in BagToSet(client.view.labels) \cup {NoRow}
  /\ label # client.view.editingLabel
  /\ client' = [client EXCEPT !.view.editingLabel = label]
  /\ LabelPageUnchanged

(* the form of the edit dialog is submitted with the name it holds *)
UpdateLabel(editingLabel, name) ==
  /\ LabelPageOpen
  /\ editingLabel = client.view.editingLabel
  /\ editingLabel # NoRow
  /\ Required(name)
  /\ client' = Resume(client, 0, NewCall("handleUpdateLabel", client.user, client.id,
                                         [label |-> editingLabel, name |-> name]))
  /\ LabelPageUnchanged

(* the delete button of a listed label *)
DeleteLabel(labelId) ==
  /\ LabelPageOpen
  /\ \E label \in BagToSet(client.view.labels) : label.id = labelId
  /\ client' = Resume(client, 0,
                      NewCall("handleDeleteLabel", client.user, client.id,
                              [label |-> CHOOSE label \in BagToSet(client.view.labels) :
                                           label.id = labelId,
                               name |-> NoArg.name]))
  /\ LabelPageUnchanged

(* lists of files a user can drop or pick at once *)
FileLists == UNION {[1..n -> FileTypes] : n \in 1..NumFiles}

(* the whole system: migrations, signups, every request of every caller, and one
   browser *)
Next ==
  \/ ApplyMigration
  \/ \E u \in Users : Signup(u)
  \/ \E q \in Callers, t \in Tables : \E old \in db[t] : Select(q, t, old)
  \/ \E q \in Callers, t \in Tables : \E new \in InsertPayloads(t) : Insert(q, t, new)
  \/ \E q \in Callers, t \in Tables : \E old \in db[t] :
        \E new \in UpdatePayloads(t, old) : Update(q, t, old, new)
  \/ \E q \in Callers, t \in Tables : \E old \in db[t] : Delete(q, t, old)
  \/ \E page \in Routes, user \in Callers, id \in ProjectIds \cup {NULL} :
        Mount(page, user, id)
  \/ \E id \in ProjectIds : RouteParam(id)
  \/ handleSignOut
  \/ backToProjects
  \/ \E k \in 1..MaxCalls : Serve(k)
  \/ \E k \in 1..MaxCalls : Deliver(k)
  \/ \E name \in FormNames : CreateLabel(name)
  \/ \E label \in LabelRows \cup {NoRow} : setEditingLabel(label)
  \/ \E editingLabel \in LabelRows : \E name \in FormNames :
        UpdateLabel(editingLabel, name)
  \/ \E labelId \in LabelIds : DeleteLabel(labelId)
  \/ \E fileList \in FileLists : handleFiles(fileList)
  \/ \E fileId \in FileIds : removeFile(fileId)
  \/ uploadFiles
  \/ \E k \in 1..MaxRuns : uploadFiles_Progress(k)
  \/ \E k \in 1..MaxRuns : uploadFiles_Load(k)
  \/ \E k \in 1..MaxRuns : uploadFiles_Request(k)
  \/ \E k \in 1..MaxRuns : uploadFiles_Insert(k)
  \/ \E j \in 1..NumFiles : navigateBack(j)
  \/ backToProject

Spec == Init /\ [][Next]_vars

(* ---- the same operations on the final rule set, one group of tables at a time ---- *)
ProjectTables == {"projects", "project_members"}

NextProjects ==
  \/ \E q \in Authenticated, t \in ProjectTables : \E old \in db[t] : Select(q, t, old)
  \/ \E q \in Authenticated, t \in ProjectTables :
        \E new \in InsertPayloads(t) : Insert(q, t, new)
  \/ \E q \in Authenticated, t \in ProjectTables : \E old \in db[t] :
        \E new \in UpdatePayloads(t, old) : Update(q, t, old, new)
  \/ \E q \in Authenticated, t \in ProjectTables : \E old \in db[t] : Delete(q, t, old)

SpecProjects == InitFinal /\ [][NextProjects]_vars

LabelTables == {"projects", "labels"}

NextLabels ==
  \/ \E q \in Authenticated, t \in LabelTables : \E old \in db[t] : Select(q, t, old)
  \/ \E q \in Authenticated, t \in LabelTables :
        \E new \in InsertPayloads(t) : Insert(q, t, new)
  \/ \E q \in Authenticated, t \in LabelTables : \E old \in db[t] :
        \E new \in UpdatePayloads(t, old) : Update(q, t, old, new)
  \/ \E q \in Authenticated, t \in LabelTables : \E old \in db[t] : Delete(q, t, old)

SpecLabels == InitFinal /\ [][NextLabels]_vars

ImageTables == {"projects", "images"}

NextImages ==
  \/ \E q \in Authenticated, t \in ImageTables : \E old \in db[t] : Select(q, t, old)
  \/ \E q \in Authenticated, t \in ImageTables :
        \E new \in InsertPayloads(t) : Insert(q, t, new)
  \/ \E q \in Authenticated, t \in ImageTables : \E old \in db[t] :
        \E new \in UpdatePayloads(t, old) : Update(q, t, old, new)
  \/ \E q \in Authenticated, t \in ImageTables : \E old \in db[t] : Delete(q, t, old)

SpecImages == InitFinal /\ [][NextImages]_vars

AnnotationTables == {"projects", "labels", "images", "annotations"}

(* the rows this group proposes: the n-th label belongs to the n-th project, labels
   all carry one name, images one id and annotations stay pending *)
AnnotationInputs(t, r) ==
  /\ t = "labels" => r.name = 1 /\ r.project_id = r.id
  /\ t = "images" => r.id = 1
  /\ t = "annotations" => r.is_approved = "null"

NextAnnotations ==
  \/ \E q \in Authenticated, t \in AnnotationTables : \E old \in db[t] : Select(q, t, old)
  \/ \E q \in Authenticated, t \in AnnotationTables :
        \E new \in InsertPayloads(t) : AnnotationInputs(t, new) /\ Insert(q, t, new)
  \/ \E q \in Authenticated, t \in AnnotationTables : \E old \in db[t] :
        \E new \in UpdatePayloads(t, old) : AnnotationInputs(t, new) /\ Update(q, t, old, new)
  \/ \E q \in Authenticated, t \in AnnotationTables : \E old \in db[t] : Delete(q, t, old)

SpecAnnotations == InitFinal /\ [][NextAnnotations]_vars

(* the rows these groups propose: labels all carry one name *)
PageInputs(t, r) == t = "labels" => r.name = 1

(* review: every request on the annotations of a project that is set up *)
ReviewTables == {"annotations"}

NextReview ==
  \/ \E q \in Authenticated, t \in ReviewTables : \E old \in db[t] : Select(q, t, old)
  \/ \E q \in Authenticated, t \in ReviewTables :
        \E new \in InsertPayloads(t) : Insert(q, t, new)
  \/ \E q \in Authenticated, t \in ReviewTables : \E old \in db[t] :
        \E new \in UpdatePayloads(t, old) : Update(q, t, old, new)
  \/ \E q \in Authenticated, t \in ReviewTables : \E old \in db[t] : Delete(q, t, old)

SpecReview == InitAnnotated /\ [][NextReview]_vars

(* a new account and the requests it can send on its own *)
AccountTables == {"profiles", "projects", "project_members"}

NextNewcomer ==
  \/ Signup(Newcomer)
  \/ \E q \in Authenticated \cap {Newcomer}, t \in AccountTables :
        \E old \in db[t] : Select(q, t, old)
  \/ \E q \in Authenticated \cap {Newcomer}, t \in AccountTables :
        \E new \in InsertPayloads(t) : Insert(q, t, new)
  \/ \E q \in Authenticated \cap {Newcomer}, t \in AccountTables : \E old \in db[t] :
        \E new \in UpdatePayloads(t, old) : Update(q, t, old, new)
  \/ \E q \in Authenticated \cap {Newcomer}, t \in AccountTables :
        \E old \in db[t] : Delete(q, t, old)

SpecNewcomer == InitEstablished /\ [][NextNewcomer]_vars

(* writers on the two tables that carry a UNIQUE constraint *)
UniqueTables == {"projects", "project_members", "labels"}

NextUnique ==
  \/ \E q \in Authenticated, t \in UniqueTables : \E old \in db[t] : Select(q, t, old)
  \/ \E q \in Authenticated, t \in UniqueTables :
        \E new \in InsertPayloads(t) : PageInputs(t, new) /\ Insert(q, t, new)
  \/ \E q \in Authenticated, t \in UniqueTables : \E old \in db[t] :
        \E new \in UpdatePayloads(t, old) : PageInputs(t, new) /\ Update(q, t, old, new)
  \/ \E q \in Authenticated, t \in UniqueTables : \E old \in db[t] : Delete(q, t, old)

SpecUnique == InitFinal /\ [][NextUnique]_vars

(* the pages and the tables they read, for signed-in and signed-out callers *)
PageTables == {"projects", "labels", "images"}

(* the row the callers insert while the pages are open: the image of the second
   project *)
SeedRows(t, r) ==
  /\ t = "images"
  /\ r.project_id = r.id

(* the callers delete and restore rows while one browser opens the pages (a page is
   opened when no call of the page before is under way), changes the route id and
   signs out, and the requests of the pages are served and delivered one by one *)
NextPages ==
  \/ \E q \in Callers, t \in PageTables :
        \E new \in InsertPayloads(t) : SeedRows(t, new) /\ Insert(q, t, new)
  \/ \E q \in Callers, t \in PageTables : \E old \in db[t] : Delete(q, t, old)
  \/ \E page \in Pages, user \in Callers, id \in ProjectIds \cup {NULL} :
        client.calls = <<>> /\ Mount(page, user, id)
  \/ \E id \in ProjectIds : RouteParam(id)
  \/ handleSignOut
  \/ backToProjects
  \/ \E k \in 1..MaxCalls : Serve(k)
  \/ \E k \in 1..MaxCalls : Deliver(k)

SpecPages == InitPages /\ [][NextPages]_vars

(* the upload page of one signed-in user, opened on a project *)
NextUpload ==
  \/ \E fileList \in FileLists : handleFiles(fileList)
  \/ \E fileId \in FileIds : removeFile(fileId)
  \/ uploadFiles
  \/ \E k \in 1..MaxRuns : uploadFiles_Progress(k)
  \/ \E k \in 1..MaxRuns : uploadFiles_Load(k)
  \/ \E k \in 1..MaxRuns : uploadFiles_Request(k)
  \/ \E k \in 1..MaxRuns : uploadFiles_Insert(k)
  \/ \E j \in 1..NumFiles : navigateBack(j)
  \/ \E k \in 1..MaxCalls : Serve(k)
  \/ \E k \in 1..MaxCalls : Deliver(k)
  \/ \E id \in ProjectIds : Mount("ImageUpload", 1, id)
  \/ \E q \in {client.user} : \E old \in images : Delete(q, "images", old)

SpecUpload == InitUpload /\ [][NextUpload]_vars

(* timers and responses are delivered: a continuation that can run does run *)
SpecUploadFair ==
  /\ SpecUpload
  /\ WF_vars(\E k \in 1..MaxRuns : uploadFiles_Progress(k))
  /\ WF_vars(\E k \in 1..MaxRuns : uploadFiles_Load(k))
  /\ WF_vars(\E k \in 1..MaxRuns : uploadFiles_Request(k))
  /\ WF_vars(\E k \in 1..MaxRuns : uploadFiles_Insert(k))

(* the names typed into the forms: a name between white space, another name without,
   and white space only *)
TypedNames ==
  {name \in FormNames : name.lead = name.trail /\ (name.lead <=> name.core # 2)}

(* one signed-in user on the label page of a project, and nobody else *)
NextLabelPage ==
  \/ \E id \in ProjectIds : Mount("LabelManagement", 1, id)
  \/ \E k \in 1..MaxCalls : Serve(k)
  \/ \E k \in 1..MaxCalls : Deliver(k)
  \/ \E name \in TypedNames : CreateLabel(name)
  \/ \E label \in LabelRows \cup {NoRow} : client.calls = <<>> /\ setEditingLabel(label)
  \/ \E editingLabel \in LabelRows : \E name \in TypedNames :
        UpdateLabel(editingLabel, name)
  \/ \E labelId \in LabelIds : DeleteLabel(labelId)

SpecLabelPage == InitLabelPage /\ [][NextLabelPage]_vars

(* ---- well-formedness of the stored state ---- *)
Outcomes == {"none", "ok", "PolicyDenied", "UniqueConstraintViolation", "ForeignKeyViolation"}

TypeOK ==
  /\ policies \subseteq AllPolicies
  /\ migrated \in 0..Len(Migrations)
  /\ profiles \subseteq ProfileRows
  /\ projects \subseteq ProjectRows
  /\ project_members \subseteq MemberRows
  /\ labels \subseteq LabelRows
  /\ images \subseteq ImageRows
  /\ annotations \subseteq AnnotationRows
  /\ \A t \in Generated : issued[t] \in 0..Cardinality(IdsOf(t))
  /\ \A t \in Generated : \A r \in db[t] : r.id <= issued[t]
  /\ last \in Outcomes
  /\ client.page \in Routes \cup {"none"}
  /\ client.user \in Principals
  /\ client.id \in ProjectIds \cup {NULL}
  /\ client.view.navigate \in {"none", "/auth", "/projects"}
  /\ client.view.loading \in BOOLEAN
  /\ client.view.images \subseteq ImageRows
  /\ IsABag(client.view.labels)
  /\ BagToSet(client.view.labels) \subseteq LabelRows
  /\ client.view.editingLabel \in LabelRows \cup {NoRow}
  /\ Len(client.calls) <= MaxCalls
  /\ \A k \in DOMAIN client.calls :
        /\ client.calls[k].at \in {"projects", "images", "labels", "insert", "update", "delete",
                                     "signOut"}
        /\ client.calls[k].caller \in Principals
        /\ client.calls[k].live \in BOOLEAN
        /\ client.calls[k].res.error \in Outcomes \cup {"pending", "FetchError", "PGRST116"}
  /\ upload.files \in Seq(UploadFiles)
  /\ upload.uploading \in BOOLEAN
  /\ upload.revoked \subseteq FileIds
  /\ upload.toast.title \in {"none", "Invalid Files", "Upload Complete"}
  /\ upload.toast.count \in 0..NumFiles
  /\ upload.timers \in Seq(ProjectIds)
  /\ upload.handed \in 0..NumFiles
  /\ upload.done \in [stored : 0..NumFiles, moved : 0..NumFiles]
  /\ Len(upload.runs) <= MaxRuns
  /\ \A k \in DOMAIN upload.runs :
        /\ upload.runs[k].pc \in {"progress", "load", "insert", "hung"}
        /\ upload.runs[k].files \in Seq(UploadFiles)
        /\ upload.runs[k].i \in 1..NumFiles
        /\ upload.runs[k].progress \in 0..ProgressLast
        /\ upload.runs[k].successCount \in 0..NumFiles
        /\ upload.runs[k].log \in [stored : 0..NumFiles, moved : 0..NumFiles]
        /\ upload.runs[k].live \in BOOLEAN
  /\ \A t \in Tables : \A r1, r2 \in db[t] : SameKey(t, r1, r2) => r1 = r2


(* ---- the ownership graph, read off the stored rows ---- *)
(* creator of the project with this id; NULL when there is no such project *)
CreatorOf(d, project_id) ==
  IF \E pj \in d.projects : pj.id = project_id
  THEN (CHOOSE pj \in d.projects : pj.id = project_id).created_by
  ELSE NULL

(* ownerChain(Image, id): the owning project id; NULL when there is no such image *)
ProjectOfImage(d, image_id) ==
  IF \E i \in d.images : i.id = image_id
  THEN (CHOOSE i \in d.images : i.id = image_id).project_id
  ELSE NULL

Decision(b) == IF b THEN "ALLOW" ELSE "DENY"

(* ======================= claims ======================= *)

(* C1: under the final rule set, SELECT, UPDATE and DELETE of a project are ALLOW for
   its creator and DENY for every other principal, whatever that principal's global
   role or project memberships. *)
C1_ProjectCreatorOnly ==
  Migrated =>
    \A P \in projects : \A Q \in Principals :
      /\ authorize(db, policies, Q, "SELECT", "projects", P, NoRow)
           = Decision(Q = P.created_by)
      /\ authorize(db, policies, Q, "UPDATE", "projects", P, P)
           = Decision(Q = P.created_by)
      /\ authorize(db, policies, Q, "DELETE", "projects", P, NoRow)
           = Decision(Q = P.created_by)

(* an admin who is a member of somebody else's project has just been refused *)
C1_Witness ==
  /\ Migrated
  /\ last = "PolicyDenied"
  /\ \E P \in projects : \E Q \in Users :
       /\ Q # P.created_by
       /\ has_role(db, Q, "admin")
       /\ \E m \in project_members : m.project_id = P.id /\ m.user_id = Q
       /\ authorize(db, policies, Q, "UPDATE", "projects", P, P) = "DENY"
       /\ authorize(db, policies, P.created_by, "UPDATE", "projects", P, P) = "ALLOW"

(* C2: a principal whose global role is reviewer or admin is ALLOWed SELECT and UPDATE
   on every annotation, also when it is not the creator of the owning project. *)
C2_ReviewerAllowed ==
  Migrated =>
    \A A \in annotations : \A Q \in Users :
      (has_role(db, Q, "reviewer") \/ has_role(db, Q, "admin")) =>
        /\ authorize(db, policies, Q, "SELECT", "annotations", A, NoRow) = "ALLOW"
        /\ authorize(db, policies, Q, "UPDATE", "annotations", A, A) = "ALLOW"

(* C3: a principal that is neither reviewer nor admin and is neither the creator of
   the annotation nor of the owning project is DENYed SELECT and UPDATE on it. *)
C3_StrangerDenied ==
  Migrated =>
    \A A \in annotations : \A Q \in Principals :
      ( /\ ~has_role(db, Q, "reviewer")
        /\ ~has_role(db, Q, "admin")
        /\ Q # A.created_by
        /\ Q # CreatorOf(db, ProjectOfImage(db, A.image_id)) ) =>
        /\ authorize(db, policies, Q, "SELECT", "annotations", A, NoRow) = "DENY"
        /\ \A new \in UpdatePayloads("annotations", A) :
             authorize(db, policies, Q, "UPDATE", "annotations", A, new) = "DENY"

(* an annotator unrelated to the project has just been refused on an annotation *)
C3_Witness ==
  /\ Migrated
  /\ last = "PolicyDenied"
  /\ \E A \in annotations : \E Q \in Users :
       /\ has_role(db, Q, "annotator")
       /\ Q # A.created_by
       /\ Q # CreatorOf(db, ProjectOfImage(db, A.image_id))
       /\ authorize(db, policies, Q, "SELECT", "annotations", A, NoRow) = "DENY"

(* C4: INSERT of an annotation is ALLOW exactly when the principal is the creator of
   the project owning the annotation's image and payload.created_by is the principal. *)
C4_AnnotationInsert ==
  Migrated =>
    \A Q \in Principals : \A new \in AnnotationRows :
      authorize(db, policies, Q, "INSERT", "annotations", NoRow, new)
        = Decision( /\ Q # NULL
                    /\ CreatorOf(db, ProjectOfImage(db, new.image_id)) = Q
                    /\ new.created_by = Q )

(* the owner of a project holds an annotation inserted under own name, and an insert
   by that owner naming somebody else is refused *)
C4_Witness ==
  /\ Migrated
  /\ \E A \in annotations : \E other \in Users :
       /\ A.created_by = CreatorOf(db, ProjectOfImage(db, A.image_id))
       /\ other # A.created_by
       /\ authorize(db, policies, A.created_by, "INSERT", "annotations", NoRow,
                    [A EXCEPT !.created_by = other]) = "DENY"

(* C5 as stated: inserting a membership row (for a stored project) whose user_id is not
   the caller, or whose project the caller did not create, is DENY for every principal
   whatever its role. *)
C5_OnlySelfEnrollment ==
  Migrated =>
    \A X \in Principals : \A new \in MemberRows :
      ( /\ new.project_id \in UsedIds(db, "projects")
        /\ (new.user_id # X \/ CreatorOf(db, new.project_id) # X) ) =>
        authorize(db, policies, X, "INSERT", "project_members", NoRow, new) = "DENY"

(* C5 amended: the same for every principal whose global role is not admin; a
   principal with global role admin is ALLOWed to insert any membership row. *)
C5_OnlySelfEnrollmentUnlessAdmin ==
  Migrated =>
    \A X \in Principals : \A new \in MemberRows :
      /\ ( /\ ~has_role(db, X, "admin")
           /\ (new.user_id # X \/ CreatorOf(db, new.project_id) # X) ) =>
           authorize(db, policies, X, "INSERT", "project_members", NoRow, new) = "DENY"
      /\ has_role(db, X, "admin") =>
           authorize(db, policies, X, "INSERT", "project_members", NoRow, new) = "ALLOW"

(* a user who is no admin and did not create the project has just been refused a
   membership row, and a membership row for a user who did not create the project is
   stored *)
C5_Witness ==
  /\ Migrated
  /\ last = "PolicyDenied"
  /\ \E P \in projects : \E X \in Users :
       /\ ~has_role(db, X, "admin")
       /\ P.created_by # X
       /\ \A id \in MemberIds :
            authorize(db, policies, X, "INSERT", "project_members", NoRow,
                      [id |-> id, project_id |-> P.id, user_id |-> X]) = "DENY"
  /\ \E m \in project_members : CreatorOf(db, m.project_id) # m.user_id

(* C6: a principal inserting a membership row for itself into a project it created is
   ALLOW, and the row is stored when no row for that pair (and none with the id it
   sends) exists yet. *)
C6_SelfEnrollment ==
  Migrated =>
    \A P \in projects : \A id \in MemberIds :
      LET X == P.created_by
          row == [id |-> id, project_id |-> P.id, user_id |-> X]
      IN /\ authorize(db, policies, X, "INSERT", "project_members", NoRow, row) = "ALLOW"
         /\ (\A m \in project_members :
                m.id # id /\ (m.project_id # P.id \/ m.user_id # X)) =>
              InsertOutcome(db, policies, X, "project_members", row) = "ok"

(* a creator who is no admin has enrolled itself *)
C6_Witness ==
  /\ Migrated
  /\ last = "ok"
  /\ \E m \in project_members :
       /\ CreatorOf(db, m.project_id) = m.user_id
       /\ ~has_role(db, m.user_id, "admin")

(* C7: every action on a label (or a proposed label) of project P is ALLOW if and only
   if the principal is the creator of P, the decision the creator check gives on P. *)
C7_LabelFollowsProject ==
  Migrated =>
    \A P \in projects : \A Q \in Principals :
      /\ \A L \in {l \in labels : l.project_id = P.id} :
           /\ authorize(db, policies, Q, "SELECT", "labels", L, NoRow)
                = Decision(Q = P.created_by)
           /\ authorize(db, policies, Q, "DELETE", "labels", L, NoRow)
                = Decision(Q = P.created_by)
           /\ \A new \in {n \in UpdatePayloads("labels", L) : n.project_id = P.id} :
                authorize(db, policies, Q, "UPDATE", "labels", L, new)
                  = Decision(Q = P.created_by)
           /\ authorize(db, policies, Q, "SELECT", "labels", L, NoRow)
                = authorize(db, policies, Q, "SELECT", "projects", P, NoRow)
      /\ \A new \in {n \in LabelRows : n.project_id = P.id} :
           authorize(db, policies, Q, "INSERT", "labels", NoRow, new)
             = Decision(Q = P.created_by)

(* a label is stored and an admin who does not own its project has just been refused *)
C7_Witness ==
  /\ Migrated
  /\ last = "PolicyDenied"
  /\ \E L \in labels : \E Q \in Users :
       /\ Q # CreatorOf(db, L.project_id)
       /\ has_role(db, Q, "admin")
       /\ authorize(db, policies, Q, "DELETE", "labels", L, NoRow) = "DENY"
       /\ authorize(db, policies, CreatorOf(db, L.project_id), "DELETE", "labels", L, NoRow)
            = "ALLOW"

(* C8: every action on an image (or a proposed image) of project P is ALLOW if and
   only if the principal is the creator of P. *)
C8_ImageFollowsProject ==
  Migrated =>
    \A P \in projects : \A Q \in Principals :
      /\ \A I \in {i \in images : i.project_id = P.id} :
           /\ authorize(db, policies, Q, "SELECT", "images", I, NoRow)
                = Decision(Q = P.created_by)
           /\ authorize(db, policies, Q, "DELETE", "images", I, NoRow)
                = Decision(Q = P.created_by)
           /\ authorize(db, policies, Q, "UPDATE", "images", I, I)
                = Decision(Q = P.created_by)
      /\ \A new \in {n \in ImageRows : n.project_id = P.id} :
           authorize(db, policies, Q, "INSERT", "images", NoRow, new)
             = Decision(Q = P.created_by)

(* an image is stored and an admin who does not own its project has just been refused *)
C8_Witness ==
  /\ Migrated
  /\ last = "PolicyDenied"
  /\ \E I \in images : \E Q \in Users :
       /\ Q # CreatorOf(db, I.project_id)
       /\ has_role(db, Q, "admin")
       /\ authorize(db, policies, Q, "UPDATE", "images", I, I) = "DENY"
       /\ authorize(db, policies, CreatorOf(db, I.project_id), "UPDATE", "images", I, I)
            = "ALLOW"

(* C9: INSERT of a project is ALLOW if and only if payload.created_by is the inserting
   principal. *)
C9_ProjectInsert ==
  Migrated =>
    \A Q \in Principals : \A new \in ProjectRows :
      authorize(db, policies, Q, "INSERT", "projects", NoRow, new)
        = Decision(new.created_by = Q)

(* a project is stored, and its creator, even as admin, was just refused one that
   names another user *)
C9_Witness ==
  /\ Migrated
  /\ last = "PolicyDenied"
  /\ \E P \in projects : \E other \in Users :
       /\ other # P.created_by
       /\ has_role(db, P.created_by, "admin")
       /\ FreeIds(db, "projects") # {}
       /\ authorize(db, policies, P.created_by, "INSERT", "projects", NoRow,
                    [id |-> LeastFreeId(db, "projects"), created_by |-> other]) = "DENY"

(* C10: membership rows are no authorization input under the final rule set: replacing
   the stored membership rows by any other set of rows the store can hold leaves every
   decision on every project, label, image and annotation unchanged. *)
(* the membership tables the constraints admit next to the stored projects and users:
   one row for each pair of the set; the id of a membership row is read by no policy,
   and each pair is given an id of its own here *)
MembershipSets(d) ==
  SUBSET {[id |-> (p - 1) * NumUsers + u, project_id |-> p, user_id |-> u] :
            p \in UsedIds(d, "projects"), u \in SignedUp(d)}

OwnedTables == {"projects", "labels", "images", "annotations"}

WithMembers(d, ms) == [d EXCEPT !.project_members = ms]

SameDecision(d, pol, Q, action, t, old, new) ==
  \E base \in {authorize(d, pol, Q, action, t, old, new)} :
    \A ms \in MembershipSets(d) : \E d2 \in {WithMembers(d, ms)} :
      authorize(d2, pol, Q, action, t, old, new) = base

C10_MembershipIrrelevant ==
  Migrated =>
    \E d \in {db} : \A Q \in Principals : \A t \in OwnedTables :
      /\ \A new \in RowsOf(t) : SameDecision(d, policies, Q, "INSERT", t, NoRow, new)
      /\ \A old \in d[t] :
           /\ SameDecision(d, policies, Q, "SELECT", t, old, NoRow)
           /\ SameDecision(d, policies, Q, "DELETE", t, old, NoRow)
           /\ \A new \in UpdatePayloads(t, old) :
                SameDecision(d, policies, Q, "UPDATE", t, old, new)

(* an annotation is stored; a user who does not own its project is refused on it, and
   stays refused when made a member of that project *)
C10_Witness ==
  /\ Migrated
  /\ last = "PolicyDenied"
  /\ \E A \in annotations : \E Q \in Users :
       LET pid == ProjectOfImage(db, A.image_id)
           ms == {[id |-> 1, project_id |-> pid, user_id |-> Q]}
       IN /\ Q # CreatorOf(db, pid)
          /\ authorize(db, policies, Q, "SELECT", "annotations", A, NoRow) = "DENY"
          /\ authorize(WithMembers(db, ms), policies, Q, "SELECT", "annotations", A, NoRow)
               = "DENY"
          /\ authorize(WithMembers(db, ms), policies, Q, "SELECT", "projects",
                       [id |-> pid, created_by |-> CreatorOf(db, pid)], NoRow) = "DENY"

(* C11: from every reachable state with room for them, u1 creating project p1, then
   label l1 in p1, then image i1 in p1, then annotation a1 on i1/l1 with created_by = u1
   is ALLOWed and stored at every step, each step decided on the rows the previous
   steps left. *)
C11_CreationSequence ==
  Migrated =>
    \A u1 \in Authenticated : \A n \in Names : \E d0 \in {db} :
      ( /\ FreeIds(d0, "projects") # {}
        /\ FreeIds(d0, "labels") # {}
        /\ FreeIds(d0, "images") # {}
        /\ FreeIds(d0, "annotations") # {} ) =>
        LET p1 == [id |-> LeastFreeId(d0, "projects"), created_by |-> u1]
            d1 == AfterInsert(d0, "projects", p1)
            l1 == [id |-> LeastFreeId(d1, "labels"), project_id |-> p1.id, name |-> n]
            d2 == AfterInsert(d1, "labels", l1)
            i1 == [id |-> LeastFreeId(d2, "images"), project_id |-> p1.id]
            d3 == AfterInsert(d2, "images", i1)
            a1 == [id |-> LeastFreeId(d3, "annotations"), image_id |-> i1.id,
                   label_id |-> l1.id, created_by |-> u1, is_approved |-> "null"]
        IN /\ authorize(d0, policies, u1, "INSERT", "projects", NoRow, p1) = "ALLOW"
           /\ InsertOutcome(d0, policies, u1, "projects", p1) = "ok"
           /\ authorize(d1, policies, u1, "INSERT", "labels", NoRow, l1) = "ALLOW"
           /\ InsertOutcome(d1, policies, u1, "labels", l1) = "ok"
           /\ authorize(d2, policies, u1, "INSERT", "images", NoRow, i1) = "ALLOW"
           /\ InsertOutcome(d2, policies, u1, "images", i1) = "ok"
           /\ authorize(d3, policies, u1, "INSERT", "annotations", NoRow, a1) = "ALLOW"
           /\ InsertOutcome(d3, policies, u1, "annotations", a1) = "ok"

(* the four rows of the scenario are stored, the annotation last *)
C11_Witness ==
  /\ Migrated
  /\ last = "ok"
  /\ \E p1 \in projects : \E l1 \in labels : \E i1 \in images : \E a1 \in annotations :
       /\ l1.project_id = p1.id
       /\ i1.project_id = p1.id
       /\ a1.image_id = i1.id
       /\ a1.label_id = l1.id
       /\ a1.created_by = p1.created_by

(* C12: in every reachable state every label and image references a stored project and
   every annotation a stored image and a stored label; a delete takes the dependent
   rows with it in the same step, so no orphan is ever stored. *)
C12_NoOrphans ==
  /\ \A l \in labels : l.project_id \in UsedIds(db, "projects")
  /\ \A i \in images : i.project_id \in UsedIds(db, "projects")
  /\ \A a \in annotations : /\ a.image_id \in UsedIds(db, "images")
                             /\ a.label_id \in UsedIds(db, "labels")

(* the first project and the first label are gone (ids are handed out least first, so
   both were stored and deleted) while a later project still holds a label *)
C12_Witness ==
  /\ Migrated
  /\ last = "ok"
  /\ 1 \notin UsedIds(db, "projects")
  /\ 1 \notin UsedIds(db, "labels")
  /\ images = {}
  /\ annotations = {}
  /\ \E l \in labels : l.project_id \in UsedIds(db, "projects")

(* C13: no step changes the creator of a stored project: a project that is stored
   before and after a step has the same created_by, also when the step is an UPDATE
   issued by the creator. *)
C13_CreatorImmutable ==
  [][\A P \in projects : \A P2 \in projects' :
        P2.id = P.id => P2.created_by = P.created_by]_vars

(* a project is stored whose creator may UPDATE it, was just refused, and is refused
   exactly the UPDATEs that name another creator *)
C13_Witness ==
  /\ Migrated
  /\ last = "PolicyDenied"
  /\ \E P \in projects :
       /\ UpdateOutcome(db, policies, P.created_by, "projects", P, P) = "ok"
       /\ \A new \in UpdatePayloads("projects", P) :
            new.created_by # P.created_by =>
              UpdateOutcome(db, policies, P.created_by, "projects", P, new) = "PolicyDenied"
       /\ \E new \in UpdatePayloads("projects", P) : new.created_by # P.created_by

(* C14: when the owning project of a label, image or annotation cannot be found, every
   action of every principal on it is DENY: for a row that names a project (or image)
   that is not stored, and for the rows a project would leave behind if it went
   without them. *)
C14_DanglingDenied ==
  Migrated =>
    \A Q \in Principals :
      /\ \A t \in {"labels", "images"} : \A r \in RowsOf(t) :
           r.project_id \notin UsedIds(db, "projects") =>
             /\ authorize(db, policies, Q, "SELECT", t, r, NoRow) = "DENY"
             /\ authorize(db, policies, Q, "INSERT", t, NoRow, r) = "DENY"
             /\ authorize(db, policies, Q, "UPDATE", t, r, r) = "DENY"
             /\ authorize(db, policies, Q, "DELETE", t, r, NoRow) = "DENY"
      /\ \A r \in AnnotationRows :
           r.image_id \notin UsedIds(db, "images") =>
             /\ authorize(db, policies, Q, "SELECT", "annotations", r, NoRow) = "DENY"
             /\ authorize(db, policies, Q, "INSERT", "annotations", NoRow, r) = "DENY"
             /\ authorize(db, policies, Q, "UPDATE", "annotations", r, r) = "DENY"
             /\ authorize(db, policies, Q, "DELETE", "annotations", r, NoRow) = "DENY"
      /\ \A P \in projects : \E d \in {[db EXCEPT !.projects = @ \ {P}]} :
           /\ \A t \in {"labels", "images"} : \A r \in d[t] :
                r.project_id = P.id =>
                  \A action \in {"SELECT", "UPDATE", "DELETE"} :
                    authorize(d, policies, Q, action, t, r,
                              IF action = "UPDATE" THEN r ELSE NoRow) = "DENY"
           /\ \A r \in d.annotations :
                ProjectOfImage(d, r.image_id) = P.id =>
                  \A action \in {"SELECT", "UPDATE", "DELETE"} :
                    authorize(d, policies, Q, action, "annotations", r,
                              IF action = "UPDATE" THEN r ELSE NoRow) = "DENY"

(* an admin who owns a project holding a label, an image and an annotation was just
   refused, and is refused a label for a project id that names no project *)
C14_Witness ==
  /\ Migrated
  /\ last = "PolicyDenied"
  /\ annotations # {}
  /\ \E P \in projects : \E pid \in FreeIds(db, "projects") : \E lid \in FreeIds(db, "labels") :
       /\ has_role(db, P.created_by, "admin")
       /\ \E l \in labels : l.project_id = P.id
       /\ \E i \in images : i.project_id = P.id
       /\ InsertOutcome(db, policies, P.created_by, "labels",
                        [id |-> lid, project_id |-> pid, name |-> 1]) = "PolicyDenied"

(* the requests the pages and their handlers send for the row E of table t *)
RequestsFor(t, E) ==
  IF t = "projects"
  THEN {SelectRequest("projects", "id", {E.id}, TRUE, NULL),
        SelectRequest("images", "project_id", {E.id}, FALSE, NULL),
        SelectRequest("labels", "project_id", {E.id}, FALSE, NULL)}
  ELSE IF t = "labels"
  THEN {DeleteRequest("labels", E.id)}
       \cup {UpdateRequest("labels", E.id, [name |-> n]) : n \in Names \cup {Blank}}
  ELSE {}

(* the responses the store can give *)
Answers(d, pol, q, req) == {a.res : a \in Respond(d, pol, q, req)}

(* the view ProjectDetail ends with when the response res to its first request arrives *)
DetailAfter(q, id, res) ==
  fetchProjectData(ViewInit, [NewCall("fetchProjectData", q, id, NoArg)
                                EXCEPT !.at = "projects", !.res = res])

(* the proposed row new of table t2 names the stored row E of table t: it has the key
   of E, or a column of it REFERENCES the id of E *)
NamesRow(t2, new, t, E) ==
  \/ t2 = t /\ SameKey(t, new, E)
  \/ CASE t = "projects" ->
            t2 \in {"project_members", "labels", "images"} /\ new.project_id = E.id
       [] t = "labels" -> t2 = "annotations" /\ new.label_id = E.id
       [] t = "images" -> t2 = "annotations" /\ new.image_id = E.id
       [] OTHER -> FALSE

(* C15: a principal that may not see a stored row E cannot tell it from a row that is
   not there: every request that names E, by its key or in a row it proposes, gets the
   response it would get if E were not stored, a request that addresses E leaves the
   stored rows alone, and ProjectDetail opened on a hidden project ends in the state it
   ends in for an id that names no project. *)
C15_ExistenceHidden ==
  Migrated =>
    \E d \in {db} : \A Q \in Principals : \A t \in Tables : \A E \in d[t] :
      authorize(d, policies, Q, "SELECT", t, E, NoRow) = "DENY" =>
        \E gone \in {AfterDelete(d, t, E)} :
          /\ ById(d, policies, Q, "SELECT", t, E, NoRow)
               = ById(gone, policies, Q, "SELECT", t, E, NoRow)
          /\ ById(d, policies, Q, "DELETE", t, E, NoRow)
               = ById(gone, policies, Q, "DELETE", t, E, NoRow)
          /\ \A new \in UpdatePayloads(t, E) :
               ById(d, policies, Q, "UPDATE", t, E, new)
                 = ById(gone, policies, Q, "UPDATE", t, E, new)
          /\ \A req \in RequestsFor(t, E) :
               /\ Answers(d, policies, Q, req) = Answers(gone, policies, Q, req)
               /\ \A a \in Respond(d, policies, Q, req) : a.db = d
          /\ t = "projects" =>
               \A id \in ProjectIds \ UsedIds(d, "projects") :
                 \A res \in Answers(d, policies, Q, SelectRequest("projects", "id", {E.id},
                                                                  TRUE, NULL)) :
                   /\ res \in Answers(d, policies, Q,
                                      SelectRequest("projects", "id", {id}, TRUE, NULL))
                   /\ DetailAfter(Q, E.id, res).view
                        = [ViewInit EXCEPT !.toast = "Failed to load project",
                                           !.navigate = "/projects", !.loading = FALSE]
          /\ \A t2 \in Tables :
               /\ \A new \in InsertPayloads(t2) :
                    NamesRow(t2, new, t, E) =>
                      InsertOutcome(d, policies, Q, t2, new)
                        = InsertOutcome(gone, policies, Q, t2, new)
               /\ \A old \in gone[t2] : \A new \in UpdatePayloads(t2, old) :
                    NamesRow(t2, new, t, E) =>
                      UpdateOutcome(d, policies, Q, t2, old, new)
                        = UpdateOutcome(gone, policies, Q, t2, old, new)

(* a stored label other than except that has the project and the name of new *)
NameTaken(d, new, except) ==
  \E l \in d.labels \ except : l.project_id = new.project_id /\ l.name = new.name

(* C16: no two stored labels of one project have the same name; an INSERT or a rename
   that would make a duplicate is rejected (with UniqueConstraintViolation when the
   policies let it through), and a rejected request leaves the stored labels as they
   were. *)
C16_LabelNamesUnique ==
  /\ [](\A l1, l2 \in labels :
          (l1.project_id = l2.project_id /\ l1.name = l2.name) => l1 = l2)
  /\ [](\A Q \in Principals :
          /\ \A new \in InsertPayloads("labels") :
               NameTaken(db, new, {}) =>
                 InsertOutcome(db, policies, Q, "labels", new)
                   = IF Permits(db, policies, Q, "INSERT", "labels", NoRow, new)
                     THEN "UniqueConstraintViolation" ELSE "PolicyDenied"
          /\ \A L \in labels : \A new \in UpdatePayloads("labels", L) :
               NameTaken(db, new, {L}) =>
                 UpdateOutcome(db, policies, Q, "labels", L, new)
                   = IF Permits(db, policies, Q, "UPDATE", "labels", L, new)
                     THEN "UniqueConstraintViolation" ELSE "PolicyDenied")
  /\ [][last' \in {"PolicyDenied", "UniqueConstraintViolation", "ForeignKeyViolation"}
          => labels' = labels]_vars

(* the owner of a project with two labels of different names has just been refused a
   write for a name conflict, and renaming one label to the other's name is refused *)
C16_Witness ==
  /\ Migrated
  /\ last = "UniqueConstraintViolation"
  /\ \E l1, l2 \in labels :
       /\ l1.id # l2.id
       /\ l1.project_id = l2.project_id
       /\ l1.name # l2.name
       /\ UpdateOutcome(db, policies, CreatorOf(db, l1.project_id), "labels", l1,
                        [l1 EXCEPT !.name = l2.name]) = "UniqueConstraintViolation"

(* two rows that two writers race to insert, each with an id of its own that no stored
   row has: the same membership pair, or two labels with the same project and name *)
SameUniqueKey(d, t, new1, new2) ==
  /\ new1.id \notin UsedIds(d, t)
  /\ new2.id \notin UsedIds(d, t)
  /\ new1.id # new2.id
  /\ new1.project_id = new2.project_id
  /\ IF t = "labels" THEN new1.name = new2.name ELSE new1.user_id = new2.user_id

(* C17: when two writers that the policies both let through insert the same
   (project, name) label or the same (project, user) membership, then in either order
   the first write is stored, the second fails with UniqueConstraintViolation, not with
   success and not with a policy denial, and exactly one row with that key is stored. *)
C17_OneWriterWins ==
  Migrated =>
    \E d \in {db} : \A t \in {"labels", "project_members"} : \A Q1, Q2 \in Authenticated :
      \A new1, new2 \in RowsOf(t) :
        ( /\ SameUniqueKey(d, t, new1, new2)
          /\ ~UniqueViolation(t, d[t], new1)
          /\ ~ForeignKeyViolation(t, d, new1)
          /\ Permits(d, policies, Q1, "INSERT", t, NoRow, new1)
          /\ Permits(d, policies, Q2, "INSERT", t, NoRow, new2) ) =>
          \E d1 \in {AfterInsert(d, t, new1)} :
            /\ InsertOutcome(d, policies, Q1, t, new1) = "ok"
            /\ InsertOutcome(d1, policies, Q2, t, new2) = "UniqueConstraintViolation"
            /\ authorize(d1, policies, Q2, "INSERT", t, NoRow, new2) = "ALLOW"
            /\ Cardinality({r \in d1[t] : UniqueViolation(t, {r}, new1)}) = 1

(* a write has just failed on a UNIQUE constraint; a label is stored whose owner would
   fail the same way with a second label of that name, and a membership row is stored
   that its project's creator and an admin other than the creator may both insert *)
C17_Witness ==
  /\ Migrated
  /\ last = "UniqueConstraintViolation"
  /\ \E l \in labels : \E id \in FreeIds(db, "labels") :
       InsertOutcome(db, policies, CreatorOf(db, l.project_id), "labels",
                     [l EXCEPT !.id = id]) = "UniqueConstraintViolation"
  /\ \E m \in project_members : \E admin \in Authenticated :
       /\ m.user_id = CreatorOf(db, m.project_id)
       /\ admin # m.user_id
       /\ ~has_role(db, m.user_id, "admin")
       /\ InsertOutcome(db, policies, m.user_id, "project_members", m)
            = "UniqueConstraintViolation"
       /\ InsertOutcome(db, policies, admin, "project_members", m)
            = "UniqueConstraintViolation"

(* C18: the approval state has no transition rule of its own: whoever is ALLOWed UPDATE
   on an annotation can move is_approved from whatever it is to each of pending,
   approved and rejected, in every reachable state. *)
C18_ApprovalUnrestricted ==
  Migrated =>
    \A A \in annotations : \A Q \in Principals : \A v \in Approval :
      authorize(db, policies, Q, "UPDATE", "annotations", A, A) = "ALLOW" =>
        /\ authorize(db, policies, Q, "UPDATE", "annotations", A,
                     [A EXCEPT !.is_approved = v]) = "ALLOW"
        /\ UpdateOutcome(db, policies, Q, "annotations", A, [A EXCEPT !.is_approved = v])
             = "ok"

(* an annotation that was inserted pending is stored as rejected after an UPDATE, and
   its project's creator may set it back to pending and to approved *)
C18_Witness ==
  /\ Migrated
  /\ last = "ok"
  /\ \E A \in annotations :
       /\ A.is_approved = "false"
       /\ \A v \in Approval :
            UpdateOutcome(db, policies, CreatorOf(db, ProjectOfImage(db, A.image_id)),
                          "annotations", A, [A EXCEPT !.is_approved = v]) = "ok"

(* C19: without a session nothing is granted: every SELECT, INSERT, UPDATE and DELETE
   of the anonymous caller on every row of every table is DENY and its queries return
   no row; no request of a page is sent to the store without a session; and a page that
   is shown without a session has navigated to /auth. *)
C19_AnonymousRejected ==
  Migrated =>
    /\ \A t \in Tables :
         /\ SelectRows(db, policies, NULL, t) = {}
         /\ \A r \in RowsOf(t) :
              /\ authorize(db, policies, NULL, "SELECT", t, r, NoRow) = "DENY"
              /\ authorize(db, policies, NULL, "INSERT", t, NoRow, r) = "DENY"
              /\ authorize(db, policies, NULL, "DELETE", t, r, NoRow) = "DENY"
              /\ \A new \in UpdatePayloads(t, r) :
                   authorize(db, policies, NULL, "UPDATE", t, r, new) = "DENY"
    /\ \A k \in DOMAIN client.calls :
         client.calls[k].req # NoRequest => client.calls[k].caller # NULL
    /\ (client.page \in Routes /\ client.user = NULL) => client.view.navigate = "/auth"

(* the labels, images and annotations that belong to project pid *)
RowsOfProject(d, pid) ==
  [labels |-> {l \in d.labels : l.project_id = pid},
   images |-> {i \in d.images : i.project_id = pid},
   annotations |-> {a \in d.annotations : ProjectOfImage(d, a.image_id) = pid}]

(* project of the label with this id; NULL when there is no such label *)
ProjectOfLabel(d, label_id) ==
  IF \E l \in d.labels : l.id = label_id
  THEN (CHOOSE l \in d.labels : l.id = label_id).project_id
  ELSE NULL

(* C21: tenant isolation of effects: no INSERT, UPDATE or DELETE issued by a principal
   that is not the creator of project P, cascades included, changes, adds or removes a
   label, image or annotation of P. *)
C21_TenantIsolation ==
  Migrated =>
    \E d \in {db} : \A P \in d.projects : \A Q \in Authenticated \ {P.created_by} :
      \A t \in AnnotationTables :
        /\ \A new \in InsertPayloads(t) :
             RowsOfProject(InsertEffect(d, policies, Q, t, new), P.id)
               = RowsOfProject(d, P.id)
        /\ \A old \in d[t] :
             /\ RowsOfProject(DeleteEffect(d, policies, Q, t, old), P.id)
                  = RowsOfProject(d, P.id)
             /\ \A new \in UpdatePayloads(t, old) :
                  RowsOfProject(UpdateEffect(d, policies, Q, t, old, new), P.id)
                    = RowsOfProject(d, P.id)

(* C22: the label an annotation references belongs to the project of the image the
   annotation references. *)
C22_LabelOfImageProject ==
  Migrated =>
    \A A \in annotations :
      ProjectOfLabel(db, A.label_id) = ProjectOfImage(db, A.image_id)

(* C23: a principal that signed up with the default role never, by its own requests
   alone, inserts, updates or deletes a membership row of a project it did not create
   or of another user: the membership of the first user stays, and every other stored
   membership row is the newcomer's own in the newcomer's own project. *)
C23_NoForeignMembershipWrite ==
  /\ [id |-> 1, project_id |-> 1, user_id |-> CreatorOf(db, 1)] \in project_members
  /\ \A m \in project_members \ {[id |-> 1, project_id |-> 1, user_id |-> CreatorOf(db, 1)]} :
       m.user_id = Newcomer /\ CreatorOf(db, m.project_id) = Newcomer

(* C24: under the final rule set every stored annotation was created by the creator of
   the project that owns the annotation's image. *)
C24_AnnotationByProjectCreator ==
  Migrated =>
    \A A \in annotations :
      A.created_by = CreatorOf(db, ProjectOfImage(db, A.image_id))

(* an annotation is stored while two principals own a project each *)
C24_Witness ==
  /\ Migrated
  /\ last = "ok"
  /\ annotations # {}
  /\ \E P1 \in projects : \E P2 \in projects : P1.created_by # P2.created_by

(* C25: a file removed from the list while pending is never written to the images
   table: no call of uploadFiles gets an image row stored for a file that removeFile
   has removed (its object URL is revoked), also when the file was removed while the
   call was working on other files. *)
C25_RemovedNeverInserted ==
  [][\A k \in DOMAIN upload.runs :
       (/\ upload.runs[k].pc = "insert"
        /\ upload.runs[k].res.error = "pending"
        /\ k \in DOMAIN upload'.runs
        /\ upload'.runs[k].res.error = "none")
         => upload.runs[k].files[upload.runs[k].i].id \notin upload.revoked]_vars

(* C26: every call of uploadFiles finishes: once a call runs, the calls all return,
   uploading is false again and no file is left in status uploading, whatever the
   image load and the insert do. *)
C26_UploadFinishes ==
  (upload.runs # <<>>) ~>
    (/\ upload.runs = <<>>
     /\ ~upload.uploading
     /\ \A k \in DOMAIN upload.files : upload.files[k].status # "uploading")

(* C27: a file's status only moves pending -> uploading -> success or pending ->
   uploading -> error, success and error are final, its progress never decreases, and
   it reaches success only in the step in which the response to its own images insert
   arrives without error, with progress 100. *)
C27_StatusMoves ==
  /\ [](\A k \in DOMAIN upload.files :
          upload.files[k].status = "success" => upload.files[k].progress = ProgressDone)
  /\ [][\A k \in DOMAIN upload.files : \A j \in DOMAIN upload'.files :
          upload'.files[j].id = upload.files[k].id =>
            /\ \/ upload'.files[j].status = upload.files[k].status
               \/ <<upload.files[k].status, upload'.files[j].status>>
                     \in {<<"pending", "uploading">>, <<"uploading", "success">>,
                          <<"uploading", "error">>}
            /\ upload'.files[j].progress >= upload.files[k].progress
            /\ (upload.files[k].status # "success" /\ upload'.files[j].status = "success")
                 => \E n \in DOMAIN upload.runs :
                      /\ upload.runs[n].pc = "insert"
                      /\ upload.runs[n].res.error = "none"
                      /\ upload.runs[n].log.stored > 0
                      /\ upload.runs[n].files[upload.runs[n].i].id = upload.files[k].id
                      /\ upload'.runs # upload.runs]_vars

(* one file of the list has ended in success and another in error, and both image rows
   of a call are stored *)
C27_Witness ==
  /\ \E k \in DOMAIN upload.files :
        upload.files[k].status = "success" /\ upload.files[k].progress = ProgressDone
  /\ \E k \in DOMAIN upload.files :
        upload.files[k].status = "error" /\ upload.files[k].progress = ProgressLast

(* C28: when a call of uploadFiles returns on the page that made it, the "Upload
   Complete" toast is raised if and only if an images insert of the call succeeded, and
   the number in it is the number of files the call moved to status success. *)
C28_ToastCountsSuccesses ==
  [][\A k \in DOMAIN upload.runs :
       (upload.runs[k].live /\ upload'.runs = Without(upload.runs, k))
         => /\ upload'.toast.title = "Upload Complete" <=> upload'.done.stored > 0
            /\ upload'.toast.title = "Upload Complete"
                 => upload'.toast.count = upload'.done.moved]_vars

(* C29: LabelManagement never sends a label whose trimmed name is empty, so after any
   sequence of create and edit actions of the page every stored label has a non-empty
   name. *)
C29_NoBlankLabelName ==
  \A l \in labels : l.name # Blank

(* C30: a rejected create, update or delete leaves the displayed label list and the
   store as they were, and a call of a handler that returns while the displayed list is
   the stored labels of the project, with no other call left under way, leaves the
   displayed list equal to the stored labels of the project (stated for the steps
   after which no stored or displayed name is empty, so that the empty names of C29
   play no part). *)
LabelHandlers ==
  {"handleCreateLabel", "handleUpdateLabel", "handleDeleteLabel"}

ListMirrorsStore(cl, stored) ==
  cl.view.labels = SetToBag({l \in stored : l.project_id = cl.id})

C30_ListMirrorsStore ==
  [][\A k \in DOMAIN client.calls :
        (/\ client.calls[k].fn \in LabelHandlers
         /\ client.calls[k].live
         /\ client.calls[k].res.error # "pending"
         /\ client'.calls = Without(client.calls, k))
          => /\ client.calls[k].res.error # "none"
                  => /\ client'.view.labels = client.view.labels
                     /\ client'.view.toast \in {"Failed to create label",
                                                "Failed to update label",
                                                "Failed to delete label"}
             /\ (/\ client'.calls = <<>>
                 /\ ListMirrorsStore(client, labels)
                 /\ \A l \in labels' \cup BagToSet(client'.view.labels) : l.name # Blank)
                  => ListMirrorsStore(client', labels')]_vars

====
